---- MODULE Spec2Model ----
(***************************************************************************)
(* Model of the selector resolution and trace annotation tools of the      *)
(* Foundry MCP server (src/src/tools/cast.ts): cast_trace,                 *)
(* cast_4byte_from_file and analyze_transaction_trace, with the command    *)
(* runner of src/src/utils/rpc.ts.                                         *)
(*                                                                         *)
(* Text is a sequence of one-character strings, so that the regular        *)
(* expressions, trim, split and the string comparisons of the source are   *)
(* computed character by character.                                        *)
(***************************************************************************)
EXTENDS Integers, Sequences, FiniteSets, TLC

VARIABLES
    tool,               \* the tool whose handler runs
    pc,                 \* the await the handler is suspended at
    req,                \* the arguments of the request
    fileContent,        \* the text of the signature file on disk
    traceText,          \* result.message of the trace command
    selectors,          \* the deduplicated selector list
    idx,                \* position of the for-of loop over selectors
    selectorMap,        \* the per-invocation resolution map, in insertion order
    onlineSignatures,   \* remote candidates of the selector being resolved
    signatures,         \* candidate lines of the signature file
    sigIdx,             \* position of the for-of loop over signatures
    matchingSignatures, \* local matches of the selector being resolved
    calls,              \* every external call issued so far, in order
    response            \* the value the handler returned, or the exception

vars == <<tool, pc, req, fileContent, traceText, selectors, idx, selectorMap,
          onlineSignatures, signatures, sigIdx, matchingSignatures,
          calls, response>>

-----------------------------------------------------------------------------
(* Characters and strings *)

HexChars ==
    {"0", "1", "2", "3", "4", "5", "6", "7", "8", "9",
     "a", "b", "c", "d", "e", "f", "A", "B", "C", "D", "E", "F"}

IsHex(c) == c \in HexChars

\* the whitespace String.prototype.trim removes
WhiteSpace == {" ", "\t", "\r", "\n"}

\* number of hex characters of a selector
SelectorHexLen == 8

\* length of a selector string: "0x" and the hex characters
SelectorLen == 2 + SelectorHexLen

Range(s) == {s[i] : i \in 1..Len(s)}

RECURSIVE Flatten(_)
Flatten(ss) == IF ss = <<>> THEN <<>> ELSE Head(ss) \o Flatten(Tail(ss))

Rep(c, n) == [i \in 1..n |-> c]

-----------------------------------------------------------------------------
(* Selector extraction: /0x[a-fA-F0-9]{8}(?![a-fA-F0-9])/g *)

\* the pattern without its lookahead: /0x[a-fA-F0-9]{8}/
MatchesAt_NoLookahead(text, i) ==
    /\ i + SelectorLen - 1 <= Len(text)
    /\ text[i] = "0"
    /\ text[i + 1] = "x"
    /\ \A k \in 2..(SelectorLen - 1) : IsHex(text[i + k])

\* the pattern matches at position i of text
MatchesAt(text, i) ==
    /\ i + SelectorLen - 1 <= Len(text)
    /\ text[i] = "0"
    /\ text[i + 1] = "x"
    /\ \A k \in 2..(SelectorLen - 1) : IsHex(text[i + k])
    /\ (i + SelectorLen <= Len(text) => ~IsHex(text[i + SelectorLen]))

\* String.prototype.match with the g flag: leftmost matches, the search
\* resuming after the end of each match
RECURSIVE MatchAll(_, _)
MatchAll(text, from) ==
    LET found == {i \in from..Len(text) : MatchesAt(text, i)}
        first == CHOOSE i \in found : \A j \in found : i <= j
    IN  IF found = {} THEN <<>>
        ELSE <<SubSeq(text, first, first + SelectorLen - 1)>>
                 \o MatchAll(text, first + SelectorLen)

\* the list of matches with its repetitions
Dedupe_None(list) == list

\* [...new Set(list)]: each value once, in order of first insertion
RECURSIVE Dedupe(_)
Dedupe(list) ==
    IF list = <<>> THEN <<>>
    ELSE LET rest == Dedupe(SubSeq(list, 1, Len(list) - 1))
             last == list[Len(list)]
         IN  IF last \in Range(rest) THEN rest ELSE Append(rest, last)

ExtractSelectors(text) == Dedupe(MatchAll(text, 1))

-----------------------------------------------------------------------------
(* Inputs of the extraction *)

\* number of fragments a trace text is made of
MaxFrags == 4

SelA == <<"0", "x">> \o Rep("a", SelectorHexLen)
SelB == <<"0", "x">> \o Rep("b", SelectorHexLen)

Fragments ==
    { <<"0", "x">> \o Rep("a", SelectorHexLen - 1),
      SelA,
      SelA \o <<" ">>,
      SelB \o <<" ">>,
      <<"a">>,
      <<"g", " ">> }

FragSeqs(n) == UNION {[1..k -> Fragments] : k \in 0..n}

TraceTexts == {Flatten(fs) : fs \in FragSeqs(MaxFrags)}

\* an address and a transaction hash, as a trace prints them: "0x" and 40 or
\* 64 hex digits, the last 8 of them "bbbbbbbb"
Address == <<"0", "x">> \o Rep("a", 32) \o Rep("b", 8)
Hash == <<"0", "x">> \o Rep("a", 56) \o Rep("b", 8)

\* trace texts with one such literal
LiteralTexts ==
    {pre \o lit \o post :
        pre \in {<<>>, <<"g", " ">>, SelA \o <<" ">>},
        lit \in {Address, Hash},
        post \in {<<>>, <<" ">>, <<" ">> \o SelB}}

NoValue == "none"

InitExtract ==
    /\ tool = "extract"
    /\ pc = "start"
    /\ req = NoValue
    /\ fileContent = <<>>
    /\ traceText \in TraceTexts \cup LiteralTexts
    /\ selectors = <<>>
    /\ idx = 0
    /\ selectorMap = <<>>
    /\ onlineSignatures = <<>>
    /\ signatures = <<>>
    /\ sigIdx = 0
    /\ matchingSignatures = <<>>
    /\ calls = <<>>
    /\ response = NoValue

Extract ==
    /\ tool = "extract"
    /\ pc = "start"
    /\ selectors' = ExtractSelectors(traceText)
    /\ pc' = "done"
    /\ UNCHANGED <<tool, req, fileContent, traceText, idx, selectorMap,
                   onlineSignatures, signatures, sigIdx, matchingSignatures,
                   calls, response>>

NextExtract == Extract

SpecExtract == InitExtract /\ [][NextExtract]_vars

-----------------------------------------------------------------------------
(* String operations of the handlers *)

Min(S) == CHOOSE m \in S : \A n \in S : m <= n
Max(S) == CHOOSE m \in S : \A n \in S : m >= n

\* String.prototype.trim
Trim(s) ==
    LET keep == {i \in 1..Len(s) : s[i] \notin WhiteSpace}
    IN  IF keep = {} THEN <<>> ELSE SubSeq(s, Min(keep), Max(keep))

\* String.prototype.split('\n'): the text between the newlines, the empty
\* string giving one empty piece
RECURSIVE SplitLines(_)
SplitLines(s) ==
    LET nl == {i \in 1..Len(s) : s[i] = "\n"}
    IN  IF nl = {} THEN <<s>>
        ELSE <<SubSeq(s, 1, Min(nl) - 1)>>
                 \o SplitLines(SubSeq(s, Min(nl) + 1, Len(s)))

\* Array.prototype.slice(0, n)
Slice(list, n) == SubSeq(list, 1, IF Len(list) < n THEN Len(list) ELSE n)

\* String.prototype.substring(0, n)
Substring(s, n) == SubSeq(s, 1, IF Len(s) < n THEN Len(s) ELSE n)

StartsWith(s, c) == Len(s) > 0 /\ s[1] = c

Includes(s, c) == c \in Range(s)

\* template interpolation of a small number
Digits(n) ==
    LET d(k) == <<"0", "1", "2", "3", "4", "5", "6", "7", "8", "9">>[k + 1]
    IN  IF n < 10 THEN <<d(n)>> ELSE <<d(n \div 10), d(n % 10)>>

\* the test without its length: /^0x[a-fA-F0-9]+/
ValidSelector_AnyLength(s) ==
    /\ Len(s) > 2
    /\ s[1] = "0"
    /\ s[2] = "x"
    /\ \A k \in 3..Len(s) : IsHex(s[k])

\* /^0x[a-fA-F0-9]{8}$/.test(selector)
ValidSelector(s) ==
    /\ Len(s) = SelectorLen
    /\ s[1] = "0"
    /\ s[2] = "x"
    /\ \A k \in 3..SelectorLen : IsHex(s[k])

-----------------------------------------------------------------------------
(* The command runner *)

\* what the child process did: its exit, its stdout and its stderr
ProcOk(out) == [exit |-> "ok", stdout |-> out, stderr |-> <<>>]
ProcWarn == [exit |-> "ok", stdout |-> <<>>, stderr |-> <<"W">>]
ProcFail == [exit |-> "error", stdout |-> <<>>, stderr |-> <<"E">>]

ExecuteCommand(proc) ==
    IF proc.exit # "ok"
    THEN [success |-> FALSE, message |-> <<"E">>]
    ELSE IF proc.stderr # <<>> /\ proc.stdout = <<>>
         THEN [success |-> FALSE, message |-> proc.stderr]
         ELSE [success |-> TRUE, message |-> proc.stdout]

\* the parse without the test of result.success
ParseSignatures_AnyResult(result) ==
    IF Trim(result.message) # <<>>
    THEN LET pieces == SplitLines(Trim(result.message))
         IN  [i \in 1..Len(pieces) |-> Trim(pieces[i])]
    ELSE <<>>

\* result.message.trim().split('\n').map(s => s.trim()) of a successful
\* non-empty result, [] otherwise
ParseSignatures(result) ==
    IF result.success /\ Trim(result.message) # <<>>
    THEN LET pieces == SplitLines(Trim(result.message))
         IN  [i \in 1..Len(pieces) |-> Trim(pieces[i])]
    ELSE <<>>

\* fileContent.split('\n').map(line => line.trim())
\*     .filter(line => line && !line.startsWith('#'))
FileSignatures(content) ==
    LET pieces == SplitLines(content)
        trimmed == [i \in 1..Len(pieces) |-> Trim(pieces[i])]
        Keep(line) == line # <<>> /\ ~StartsWith(line, "#")
    IN  SelectSeq(trimmed, Keep)

\* the test that lets every line through
HasParen_Always(line) == TRUE

\* ... && line.includes('(')
HasParen(line) == Includes(line, "(")

-----------------------------------------------------------------------------
(* Literal text of the responses *)

TxtLikely ==
    <<"L", "i", "k", "e", "l", "y", ":", " ">>

TxtOr ==
    <<" ", "o", "r", " ">>

TxtSelector ==
    <<"S", "e", "l", "e", "c", "t", "o", "r", ":", " ">>

TxtLocalMatches ==
    <<" ", " ", "L", "o", "c", "a", "l", " ", "m", "a", "t", "c", "h", "e",
      "s", " ", "(">>

TxtOnlineMatches ==
    <<" ", " ", "O", "n", "l", "i", "n", "e", " ", "m", "a", "t", "c", "h",
      "e", "s", " ", "(">>

TxtCountEnd ==
    <<")", ":">>

TxtItem ==
    <<" ", " ", " ", " ", "-", " ">>

TxtAnd ==
    <<".", ".", ".", " ", "a", "n", "d", " ">>

TxtMore ==
    <<" ", "m", "o", "r", "e">>

TxtNoMatches ==
    <<" ", " ", "N", "o", " ", "m", "a", "t", "c", "h", "e", "s", " ", "f",
      "o", "u", "n", "d">>

TxtFound ==
    <<"F", "o", "u", "n", "d", " ">>

TxtUnique ==
    <<" ", "u", "n", "i", "q", "u", "e", " ", "f", "u", "n", "c", "t", "i",
      "o", "n", " ", "s", "e", "l", "e", "c", "t", "o", "r", "s", " ", "i",
      "n", " ", "t", "h", "e", " ", "t", "r", "a", "c", "e", ".">>

TxtPartial ==
    <<" ", "(", "p", "a", "r", "t", "i", "a", "l", " ", "m", "a", "t", "c",
      "h", ":", " ">>

TxtMatchingLocal ==
    <<"M", "a", "t", "c", "h", "i", "n", "g", " ", "s", "i", "g", "n", "a",
      "t", "u", "r", "e", "s", " ", "f", "r", "o", "m", " ", "l", "o", "c",
      "a", "l", " ", "f", "i", "l", "e", ":">>

TxtNoMatchingLocal ==
    <<"N", "o", " ", "m", "a", "t", "c", "h", "i", "n", "g", " ", "s", "i",
      "g", "n", "a", "t", "u", "r", "e", "s", " ", "f", "o", "u", "n", "d",
      " ", "i", "n", " ", "l", "o", "c", "a", "l", " ", "f", "i", "l", "e",
      ".">>

TxtPossibleOnline ==
    <<"P", "o", "s", "s", "i", "b", "l", "e", " ", "s", "i", "g", "n", "a",
      "t", "u", "r", "e", "s", " ", "f", "r", "o", "m", " ", "4", "b", "y",
      "t", "e", " ", "d", "i", "r", "e", "c", "t", "o", "r", "y", ":">>

TxtNoOnline ==
    <<"N", "o", " ", "s", "i", "g", "n", "a", "t", "u", "r", "e", "s", " ",
      "f", "o", "u", "n", "d", " ", "i", "n", " ", "4", "b", "y", "t", "e",
      " ", "d", "i", "r", "e", "c", "t", "o", "r", "y", ".">>

-----------------------------------------------------------------------------
(* The environment of a request: the signature directory, the hash command *)
(* and the signature file                                                  *)

\* most candidates the signature directory returns for one selector
MaxRemote == 7

\* most lines of the signature file
MaxLines == 2

\* the k-th candidate of the directory; the lengths differ and repeat
Cand(k) == <<"f">> \o Rep("n", (2 * k) % 3) \o Digits(k) \o <<"(", ")">>

\* stdout of the directory lookup: n candidates, one per line
RemoteMessage(n) == Flatten([i \in 1..n |-> Cand(i) \o <<"\n">>])

\* a selector with the same first 6 characters as SelA
SelP == <<"0", "x">> \o Rep("a", 4) \o Rep("b", SelectorHexLen - 4)

\* SelA written with upper-case hex digits
SelAUpper == <<"0", "x">> \o Rep("A", SelectorHexLen)

\* a 7-digit selector
SelShort == <<"0", "x", "d", "e", "a", "d", "b", "e", "e">>

SigA == <<"a", "(", ")">>
SigB == <<"b", "(", ")">>
SigP == <<"p", "(", ")">>

\* `cast sig`: the selector of a signature, in lower case
CastSig(signature) ==
    CASE signature = SigA -> SelA
      [] signature = SigB -> SelB
      [] signature = SigP -> SelP
      [] OTHER -> <<"0", "x">> \o Rep("0", SelectorHexLen)

\* what the hash command can do for a signature
SigProcs(signature) == {ProcFail, ProcOk(CastSig(signature) \o <<"\n">>)}

\* a candidate whose name holds two '$', a character of Solidity identifiers
CandDollar == <<"a", "$", "$", "(", ")">>

\* what the directory lookup can do
RemoteProcs ==
    {ProcFail, ProcWarn, ProcOk(<<" ">> \o Cand(1) \o <<" ", "\n">>),
     ProcOk(CandDollar \o <<"\n">>)}
        \cup {ProcOk(RemoteMessage(n)) : n \in 0..MaxRemote}

\* the lines a signature file is made of
LineKinds ==
    { <<>>,
      <<"#", "a", "(", ")">>,
      <<"a", "b">>,
      <<" ">> \o SigA \o <<" ">>,
      SigB,
      SigP }

JoinLines(ls) ==
    Flatten([i \in 1..Len(ls) |->
                 IF i < Len(ls) THEN ls[i] \o <<"\n">> ELSE ls[i]])

Files == {JoinLines(ls) : ls \in UNION {[1..k -> LineKinds] : k \in 0..MaxLines}}

FilePath == <<"s", "i", "g", "s">>

Targets == {SelA, SelAUpper, SelShort}

-----------------------------------------------------------------------------
(* Requests and responses *)

\* an external call, as issued: a subprocess or a file operation
Call(kind, arg) == [kind |-> kind, arg |-> arg, status |-> "pending"]

\* the call log with the outstanding call left outstanding
Returned_StillPending(ok) == calls

\* the call log once the outstanding call has returned or failed
Returned(ok) ==
    [calls EXCEPT ![Len(calls)].status = IF ok THEN "ok" ELSE "failed"]

\* a returned value: the literal start of its text, the value interpolated
\* after it, the lines that follow and the trace text that ends it
Resp(isError, kind, subject, lines, trace) ==
    [thrown |-> FALSE, isError |-> isError, kind |-> kind,
     subject |-> subject, lines |-> lines, trace |-> trace]

\* an exception that leaves the handler
Thrown ==
    [thrown |-> TRUE, isError |-> FALSE, kind |-> "exception",
     subject |-> <<>>, lines |-> <<>>, trace |-> <<>>]

\* no value returned yet
NoResponse ==
    [thrown |-> FALSE, isError |-> FALSE, kind |-> "none",
     subject |-> <<>>, lines |-> <<>>, trace |-> <<>>]

NotInstalled == Resp(TRUE, "FOUNDRY_NOT_INSTALLED_ERROR", <<>>, <<>>, <<>>)

\* the missing-file response without its error flag
FileNotFound_NoFlag(filePath) ==
    Resp(FALSE, "Signatures file not found:", filePath, <<>>, <<>>)

\* `Signatures file not found: ${filePath}`, isError: true
FileNotFound(filePath) ==
    Resp(TRUE, "Signatures file not found:", filePath, <<>>, <<>>)

HandlerTools ==
    {"cast_trace", "cast_4byte_from_file", "analyze_transaction_trace"}

\* what the trace command can print
SelASp == SelA \o <<" ">>
SelBSp == SelB \o <<" ">>

HandlerTexts ==
    { <<"g", " ">>,
      SelASp,
      SelASp \o SelA,
      SelBSp \o SelASp \o SelB }

TraceProcs == {ProcFail} \cup {ProcOk(t) : t \in HandlerTexts}

Request(selector, fuzzyMatch, hasFile, matchSignatures) ==
    [selector |-> selector, fuzzyMatch |-> fuzzyMatch, filePath |-> FilePath,
     hasFile |-> hasFile, matchSignatures |-> matchSignatures]

Init ==
    /\ tool \in HandlerTools
    /\ \/ /\ tool = "cast_4byte_from_file"
          /\ req \in {Request(s, f, TRUE, FALSE) : s \in Targets, f \in BOOLEAN}
          /\ fileContent \in Files
       \/ /\ tool = "cast_trace"
          /\ req \in {Request(<<>>, FALSE, FALSE, m) : m \in BOOLEAN}
          /\ fileContent = <<>>
       \/ /\ tool = "analyze_transaction_trace"
          /\ \/ /\ req = Request(<<>>, FALSE, TRUE, FALSE)
                /\ fileContent \in Files
             \/ /\ req = Request(<<>>, FALSE, FALSE, FALSE)
                /\ fileContent = <<>>
    /\ pc = "start"
    /\ traceText = <<>>
    /\ selectors = <<>>
    /\ idx = 0
    /\ selectorMap = <<>>
    /\ onlineSignatures = <<>>
    /\ signatures = <<>>
    /\ sigIdx = 0
    /\ matchingSignatures = <<>>
    /\ calls = <<>>
    /\ response = NoResponse

\* every handler begins with `await checkFoundryInstalled()`
Start ==
    /\ tool \in HandlerTools
    /\ pc = "start"
    /\ calls' = Append(calls, Call("forge_version", <<>>))
    /\ pc' = "installed"
    /\ UNCHANGED <<tool, req, fileContent, traceText, selectors, idx,
                   selectorMap, onlineSignatures, signatures, sigIdx,
                   matchingSignatures, response>>

-----------------------------------------------------------------------------
(* cast_4byte_from_file *)

\* the text compiled from the two lists
FourByteResults(selector, matching, online) ==
    Resp(FALSE, "Results for selector", selector,
         (IF Len(matching) > 0
          THEN <<TxtMatchingLocal>> \o matching \o << <<>> >>
          ELSE <<TxtNoMatchingLocal, <<>> >>)
         \o (IF Len(online) > 0
             THEN <<TxtPossibleOnline>> \o online
             ELSE <<TxtNoOnline>>),
         <<>>)

\* the first signature at or after position from that is hashed, 0 if none:
\* `if (!signature.includes('(')) continue`
NextHashed(sigs, from) ==
    LET rest == {j \in from..Len(sigs) : HasParen(sigs[j])}
    IN  IF rest = {} THEN 0 ELSE Min(rest)

\* the for-of loop over the signatures, from position from on: it suspends
\* at the next hash command, or ends and the handler returns the results
F_Loop(sigs, from, matching, log) ==
    LET j == NextHashed(sigs, from)
    IN  IF j = 0
        THEN /\ response' =
                    FourByteResults(req.selector, matching, onlineSignatures)
             /\ pc' = "done"
             /\ sigIdx' = Len(sigs) + 1
             /\ calls' = log
        ELSE /\ calls' = Append(log, Call("cast_sig", sigs[j]))
             /\ pc' = "sig"
             /\ sigIdx' = j
             /\ response' = response

\* characters compared by the fuzzy match
FuzzyPrefixLen == 6

\* the loop body with the fuzzy branch taken whatever fuzzyMatch is
FourByteMatch_AlwaysFuzzy(matching, signature, sigResult, selector, fuzzyMatch) ==
    IF sigResult.success /\ Trim(sigResult.message) = selector
    THEN Append(matching, signature)
    ELSE IF sigResult.success
         THEN LET resultSelector == Trim(sigResult.message)
              IN  IF Substring(resultSelector, FuzzyPrefixLen)
                         = Substring(selector, FuzzyPrefixLen)
                  THEN Append(matching,
                              signature \o TxtPartial \o resultSelector
                                  \o <<")">>)
                  ELSE matching
         ELSE matching

\* the loop body with the fuzzy test made before the exact one
FourByteMatch_PartialFirst(matching, signature, sigResult, selector, fuzzyMatch) ==
    LET resultSelector == Trim(sigResult.message)
    IN  IF /\ fuzzyMatch
           /\ sigResult.success
           /\ Substring(resultSelector, FuzzyPrefixLen)
                  = Substring(selector, FuzzyPrefixLen)
        THEN Append(matching,
                    signature \o TxtPartial \o resultSelector \o <<")">>)
        ELSE IF sigResult.success /\ resultSelector = selector
             THEN Append(matching, signature)
             ELSE matching

\* one pass of the loop body after the hash command returned
FourByteMatch(matching, signature, sigResult, selector, fuzzyMatch) ==
    IF sigResult.success /\ Trim(sigResult.message) = selector
    THEN Append(matching, signature)
    ELSE IF fuzzyMatch /\ sigResult.success
         THEN LET resultSelector == Trim(sigResult.message)
              IN  IF Substring(resultSelector, FuzzyPrefixLen)
                         = Substring(selector, FuzzyPrefixLen)
                  THEN Append(matching,
                              signature \o TxtPartial \o resultSelector
                                  \o <<")">>)
                  ELSE matching
         ELSE matching

F_Installed ==
    /\ tool = "cast_4byte_from_file"
    /\ pc = "installed"
    /\ \E installed \in BOOLEAN :
          IF ~installed
          THEN /\ response' = NotInstalled
               /\ pc' = "done"
               /\ calls' = Returned(installed)
          ELSE IF ~ValidSelector(req.selector)
               THEN /\ response' =
                           Resp(TRUE, "Invalid selector format.", <<>>, <<>>,
                                <<>>)
                    /\ pc' = "done"
                    /\ calls' = Returned(installed)
               ELSE /\ calls' = Append(Returned(installed),
                                       Call("cast_4byte", req.selector))
                    /\ pc' = "online"
                    /\ response' = response
    /\ UNCHANGED <<tool, req, fileContent, traceText, selectors, idx,
                   selectorMap, onlineSignatures, signatures, sigIdx,
                   matchingSignatures>>

F_Online ==
    /\ tool = "cast_4byte_from_file"
    /\ pc = "online"
    /\ \E proc \in RemoteProcs :
          LET onlineResult == ExecuteCommand(proc)
          IN  /\ onlineSignatures' = ParseSignatures(onlineResult)
              /\ calls' = Append(Returned(onlineResult.success),
                                 Call("fs_access", req.filePath))
    /\ pc' = "access"
    /\ UNCHANGED <<tool, req, fileContent, traceText, selectors, idx,
                   selectorMap, signatures, sigIdx, matchingSignatures,
                   response>>

F_Access ==
    /\ tool = "cast_4byte_from_file"
    /\ pc = "access"
    /\ \E fileExists \in BOOLEAN :
          IF ~fileExists
          THEN /\ response' = FileNotFound(req.filePath)
               /\ pc' = "done"
               /\ calls' = Returned(fileExists)
          ELSE /\ calls' = Append(Returned(fileExists),
                                  Call("fs_readFile", req.filePath))
               /\ pc' = "read"
               /\ response' = response
    /\ UNCHANGED <<tool, req, fileContent, traceText, selectors, idx,
                   selectorMap, onlineSignatures, signatures, sigIdx,
                   matchingSignatures>>

F_Read ==
    /\ tool = "cast_4byte_from_file"
    /\ pc = "read"
    /\ \E readOk \in BOOLEAN :
          IF ~readOk
          THEN \* the rejection is caught by the handler's try block
               /\ response' =
                      Resp(TRUE, "Error processing signatures:", <<"E">>,
                           <<>>, <<>>)
               /\ pc' = "done"
               /\ calls' = Returned(readOk)
               /\ UNCHANGED <<signatures, sigIdx>>
          ELSE LET sigs == FileSignatures(fileContent)
               IN  /\ signatures' = sigs
                   /\ IF Len(sigs) = 0
                      THEN /\ response' =
                                  Resp(TRUE,
                                       "No signatures found in the provided file.",
                                       <<>>, <<>>, <<>>)
                           /\ pc' = "done"
                           /\ calls' = Returned(readOk)
                           /\ sigIdx' = sigIdx
                      ELSE F_Loop(sigs, 1, matchingSignatures,
                                  Returned(readOk))
    /\ UNCHANGED <<tool, req, fileContent, traceText, selectors, idx,
                   selectorMap, onlineSignatures, matchingSignatures>>

F_Sig ==
    /\ tool = "cast_4byte_from_file"
    /\ pc = "sig"
    /\ \E proc \in SigProcs(signatures[sigIdx]) :
          LET result == ExecuteCommand(proc)
              pushed ==
                  FourByteMatch(matchingSignatures, signatures[sigIdx],
                                result, req.selector, req.fuzzyMatch)
          IN  /\ matchingSignatures' = pushed
              /\ F_Loop(signatures, sigIdx + 1, pushed,
                        Returned(result.success))
    /\ UNCHANGED <<tool, req, fileContent, traceText, selectors, idx,
                   selectorMap, onlineSignatures, signatures>>

-----------------------------------------------------------------------------
(* Ranking, annotation and report *)

\* candidates named in an inline annotation
LikelyShown == 3

\* remote candidates listed in a report block
OnlineShown == 5

\* Array.prototype.sort((a, b) => a.length - b.length): stable
RECURSIVE SortByLength(_)
SortByLength(list) ==
    IF list = <<>> THEN <<>>
    ELSE LET rest == SortByLength(SubSeq(list, 1, Len(list) - 1))
             last == list[Len(list)]
             before == {i \in 1..Len(rest) : Len(rest[i]) <= Len(last)}
             n == IF before = {} THEN 0 ELSE Max(before)
         IN  SubSeq(rest, 1, n) \o <<last>> \o SubSeq(rest, n + 1, Len(rest))

\* Array.prototype.join
RECURSIVE Join(_, _)
Join(list, sep) ==
    IF list = <<>> THEN <<>>
    ELSE IF Len(list) = 1 THEN list[1]
    ELSE list[1] \o sep \o Join(Tail(list), sep)

\* new RegExp(selector + "(?![a-fA-F0-9])") matches at position i of text
SelectorAt(text, i, selector) ==
    /\ i + Len(selector) - 1 <= Len(text)
    /\ SubSeq(text, i, i + Len(selector) - 1) = selector
    /\ (i + Len(selector) <= Len(text) => ~IsHex(text[i + Len(selector)]))

\* the replacement string of String.prototype.replace for the match of
\* length n at position i of text, from position k of the replacement on:
\* $$, $&, $` and $' are substituted; the pattern has no capture group, so
\* every other $ stays
RECURSIVE Expand(_, _, _, _, _)
Expand(repl, k, text, i, n) ==
    LET dollars == {j \in k..(Len(repl) - 1) : repl[j] = "$"}
        d == Min(dollars)
        next == repl[d + 1]
    IN  IF dollars = {} THEN SubSeq(repl, k, Len(repl))
        ELSE SubSeq(repl, k, d - 1)
             \o (CASE next = "$" ->
                        <<"$">> \o Expand(repl, d + 2, text, i, n)
                   [] next = "&" ->
                        SubSeq(text, i, i + n - 1)
                            \o Expand(repl, d + 2, text, i, n)
                   [] next = "`" ->
                        SubSeq(text, 1, i - 1)
                            \o Expand(repl, d + 2, text, i, n)
                   [] next = "'" ->
                        SubSeq(text, i + n, Len(text))
                            \o Expand(repl, d + 2, text, i, n)
                   [] OTHER ->
                        <<"$">> \o Expand(repl, d + 1, text, i, n))

\* text.replace(new RegExp(selector + "(?![a-fA-F0-9])", "g"), repl), from
\* position from of the text on: leftmost matches, the search resuming after
\* the end of each match
RECURSIVE ReplaceFrom(_, _, _, _)
ReplaceFrom(text, from, selector, repl) ==
    LET found == {i \in from..Len(text) : SelectorAt(text, i, selector)}
        first == Min(found)
    IN  IF found = {} THEN SubSeq(text, from, Len(text))
        ELSE SubSeq(text, from, first - 1)
                 \o Expand(repl, 1, text, first, Len(selector))
                 \o ReplaceFrom(text, first + Len(selector), selector, repl)

ReplaceAll(text, selector, repl) == ReplaceFrom(text, 1, selector, repl)

Entry(selector, online, local) ==
    [selector |-> selector, online |-> online, local |-> local]

\* `${selector} [Likely: ${signaturesDisplay}]`
LikelyAnnotation(selector, sorted) ==
    selector \o <<" ", "[">> \o TxtLikely
        \o Join(Slice(sorted, LikelyShown), TxtOr) \o <<"]">>

\* selectorMap.forEach of processFunctionSelectors from entry k on
RECURSIVE AnnotateLikely(_, _, _)
AnnotateLikely(map, k, text) ==
    IF k > Len(map) THEN text
    ELSE IF Len(map[k].online) > 0
         THEN AnnotateLikely(map, k + 1,
                  ReplaceAll(text, map[k].selector,
                      LikelyAnnotation(map[k].selector,
                                       SortByLength(map[k].online))))
         ELSE AnnotateLikely(map, k + 1, text)

\* the map after the forEach: signatures.sort sorts each stored array
SortedMap(map) ==
    [k \in 1..Len(map) |->
        Entry(map[k].selector, SortByLength(map[k].online), map[k].local)]

\* the best match with the remote list preferred
BestMatch_RemoteFirst(entry) ==
    IF Len(entry.online) > 0 /\ entry.online[1] # <<>> THEN entry.online[1]
    ELSE IF Len(entry.local) > 0 THEN entry.local[1]
    ELSE <<>>

\* signatures.local[0] || signatures.online[0] || null, <<>> for null
BestMatch(entry) ==
    IF Len(entry.local) > 0 /\ entry.local[1] # <<>> THEN entry.local[1]
    ELSE IF Len(entry.online) > 0 THEN entry.online[1]
    ELSE <<>>

\* selectorMap.forEach of analyze_transaction_trace from entry k on
RECURSIVE AnnotateBest(_, _, _)
AnnotateBest(map, k, text) ==
    IF k > Len(map) THEN text
    ELSE IF BestMatch(map[k]) # <<>>
         THEN AnnotateBest(map, k + 1,
                  ReplaceAll(text, map[k].selector,
                      map[k].selector \o <<" ", "[">> \o BestMatch(map[k])
                          \o <<"]">>))
         ELSE AnnotateBest(map, k + 1, text)

Items(list) == [i \in 1..Len(list) |-> TxtItem \o list[i]]

\* the overflow line with >= for >
OverflowLine_OffByOne(online) ==
    IF Len(online) >= OnlineShown
    THEN <<TxtItem \o TxtAnd \o Digits(Len(online) - OnlineShown)
               \o TxtMore>>
    ELSE <<>>

\* `    - ... and ${signatures.online.length - 5} more`
OverflowLine(online) ==
    IF Len(online) > OnlineShown
    THEN <<TxtItem \o TxtAnd \o Digits(Len(online) - OnlineShown)
               \o TxtMore>>
    ELSE <<>>

\* the block with 'No matches found' whenever the local list is empty
ReportBlock_NoLocal(entry) ==
    <<TxtSelector \o entry.selector>>
    \o (IF Len(entry.local) > 0
        THEN <<TxtLocalMatches \o Digits(Len(entry.local)) \o TxtCountEnd>>
                 \o Items(entry.local)
        ELSE <<>>)
    \o (IF Len(entry.online) > 0
        THEN <<TxtOnlineMatches \o Digits(Len(entry.online)) \o TxtCountEnd>>
                 \o Items(Slice(entry.online, OnlineShown))
                 \o OverflowLine(entry.online)
        ELSE <<>>)
    \o (IF Len(entry.local) = 0
        THEN <<TxtNoMatches>>
        ELSE <<>>)
    \o << <<>> >>

\* the lines of one selector of the report
ReportBlock(entry) ==
    <<TxtSelector \o entry.selector>>
    \o (IF Len(entry.local) > 0
        THEN <<TxtLocalMatches \o Digits(Len(entry.local)) \o TxtCountEnd>>
                 \o Items(entry.local)
        ELSE <<>>)
    \o (IF Len(entry.online) > 0
        THEN <<TxtOnlineMatches \o Digits(Len(entry.online)) \o TxtCountEnd>>
                 \o Items(Slice(entry.online, OnlineShown))
                 \o OverflowLine(entry.online)
        ELSE <<>>)
    \o (IF Len(entry.local) = 0 /\ Len(entry.online) = 0
        THEN <<TxtNoMatches>>
        ELSE <<>>)
    \o << <<>> >>

\* selectorMap.get(selector)
MapGet(map, selector) ==
    map[CHOOSE k \in 1..Len(map) : map[k].selector = selector]

RECURSIVE ReportBlocks(_, _, _)
ReportBlocks(sels, map, k) ==
    IF k > Len(sels) THEN <<>>
    ELSE ReportBlock(MapGet(map, sels[k])) \o ReportBlocks(sels, map, k + 1)

AnalysisReport(sels, map, text) ==
    Resp(FALSE, "Analysis of transaction", <<>>,
         <<TxtFound \o Digits(Len(sels)) \o TxtUnique, <<>> >>
             \o ReportBlocks(sels, map, 1),
         AnnotateBest(map, 1, text))

\* the response with the output trimmed
TraceResponse_Trimmed(output) ==
    Resp(FALSE, "Transaction trace for", <<>>, <<>>, Trim(output))

\* `Transaction trace for ${txHash}:\n\n${output}`
TraceResponse(output) ==
    Resp(FALSE, "Transaction trace for", <<>>, <<>>, output)

-----------------------------------------------------------------------------
(* cast_trace and analyze_transaction_trace *)

TraceTools == {"cast_trace", "analyze_transaction_trace"}

T_Installed ==
    /\ tool \in TraceTools
    /\ pc = "installed"
    /\ \E installed \in BOOLEAN :
          /\ calls' = Returned(installed)
          /\ IF ~installed
             THEN /\ response' = NotInstalled
                  /\ pc' = "done"
             ELSE \* await resolveRpcUrl(rpcUrl), rpcUrl being a URL
                  /\ pc' = "rpc"
                  /\ response' = response
    /\ UNCHANGED <<tool, req, fileContent, traceText, selectors, idx,
                   selectorMap, onlineSignatures, signatures, sigIdx,
                   matchingSignatures>>

T_Rpc ==
    /\ tool \in TraceTools
    /\ pc = "rpc"
    /\ calls' = Append(calls, Call("cast_run", <<>>))
    /\ pc' = "trace"
    /\ UNCHANGED <<tool, req, fileContent, traceText, selectors, idx,
                   selectorMap, onlineSignatures, signatures, sigIdx,
                   matchingSignatures, response>>

\* the first lookup issued and the request answered without waiting for it
FirstLookup_Abandon(sels, log) ==
    /\ selectors' = sels
    /\ idx' = 1
    /\ calls' = Append(log, Call("cast_4byte", sels[1]))
    /\ pc' = "done"
    /\ response' = TraceResponse(traceText')

\* the selectors are extracted and the first lookup is issued
FirstLookup(sels, log) ==
    /\ selectors' = sels
    /\ idx' = 1
    /\ calls' = Append(log, Call("cast_4byte", sels[1]))
    /\ pc' = "online"
    /\ response' = response

C_Trace ==
    /\ tool = "cast_trace"
    /\ pc = "trace"
    /\ \E proc \in TraceProcs :
          LET result == ExecuteCommand(proc)
              sels == ExtractSelectors(result.message)
          IN  IF ~result.success
              THEN /\ response' =
                          Resp(TRUE, "Failed to trace transaction:",
                               result.message, <<>>, <<>>)
                   /\ pc' = "done"
                   /\ calls' = Returned(result.success)
                   /\ UNCHANGED <<traceText, selectors, idx>>
              ELSE /\ traceText' = result.message
                   /\ IF ~req.matchSignatures
                      THEN /\ response' = TraceResponse(result.message)
                           /\ pc' = "done"
                           /\ calls' = Returned(result.success)
                           /\ UNCHANGED <<selectors, idx>>
                      ELSE IF Len(sels) = 0
                      THEN /\ response' = TraceResponse(result.message)
                           /\ pc' = "done"
                           /\ calls' = Returned(result.success)
                           /\ UNCHANGED <<selectors, idx>>
                      ELSE FirstLookup(sels, Returned(result.success))
    /\ UNCHANGED <<tool, req, fileContent, selectorMap, onlineSignatures,
                   signatures, sigIdx, matchingSignatures>>

C_Online ==
    /\ tool = "cast_trace"
    /\ pc = "online"
    /\ \E proc \in RemoteProcs :
          LET result == ExecuteCommand(proc)
              map == IF result.success /\ Trim(result.message) # <<>>
                     THEN Append(selectorMap,
                              Entry(selectors[idx], ParseSignatures(result),
                                    <<>>))
                     ELSE selectorMap
          IN  IF idx < Len(selectors)
              THEN /\ selectorMap' = map
                   /\ idx' = idx + 1
                   /\ calls' =
                          Append(Returned(result.success),
                                 Call("cast_4byte", selectors[idx + 1]))
                   /\ UNCHANGED <<pc, response>>
              ELSE /\ selectorMap' = SortedMap(map)
                   /\ response' =
                          TraceResponse(AnnotateLikely(map, 1, traceText))
                   /\ pc' = "done"
                   /\ calls' = Returned(result.success)
                   /\ idx' = idx
    /\ UNCHANGED <<tool, req, fileContent, traceText, selectors,
                   onlineSignatures, signatures, sigIdx, matchingSignatures>>

A_Trace ==
    /\ tool = "analyze_transaction_trace"
    /\ pc = "trace"
    /\ \E proc \in TraceProcs :
          LET result == ExecuteCommand(proc)
              sels == ExtractSelectors(result.message)
          IN  IF ~result.success
              THEN /\ response' =
                          Resp(TRUE, "Failed to trace transaction:",
                               result.message, <<>>, <<>>)
                   /\ pc' = "done"
                   /\ calls' = Returned(result.success)
                   /\ UNCHANGED <<traceText, selectors, idx>>
              ELSE /\ traceText' = result.message
                   /\ IF Len(sels) = 0
                      THEN /\ response' =
                                  Resp(FALSE,
                                       "No function selectors found in the transaction trace.",
                                       <<>>, <<>>, <<>>)
                           /\ pc' = "done"
                           /\ calls' = Returned(result.success)
                           /\ UNCHANGED <<selectors, idx>>
                      ELSE FirstLookup(sels, Returned(result.success))
    /\ UNCHANGED <<tool, req, fileContent, selectorMap, onlineSignatures,
                   signatures, sigIdx, matchingSignatures>>

\* selectorMap.set for the current selector, then the next selector's lookup
\* or, after the last selector, the report
A_Finish(online, local, log) ==
    LET map == Append(selectorMap, Entry(selectors[idx], online, local))
    IN  /\ selectorMap' = map
        /\ IF idx < Len(selectors)
           THEN /\ idx' = idx + 1
                /\ calls' =
                       Append(log, Call("cast_4byte", selectors[idx + 1]))
                /\ pc' = "online"
                /\ response' = response
           ELSE /\ response' = AnalysisReport(selectors, map, traceText)
                /\ pc' = "done"
                /\ calls' = log
                /\ idx' = idx

A_Online ==
    /\ tool = "analyze_transaction_trace"
    /\ pc = "online"
    /\ \E proc \in RemoteProcs :
          LET onlineResult == ExecuteCommand(proc)
              online == ParseSignatures(onlineResult)
          IN  /\ onlineSignatures' = online
              /\ matchingSignatures' = <<>>
              /\ IF req.hasFile
                 THEN /\ calls' = Append(Returned(onlineResult.success),
                                         Call("fs_access", req.filePath))
                      /\ pc' = "access"
                      /\ UNCHANGED <<selectorMap, idx, response>>
                 ELSE A_Finish(online, <<>>, Returned(onlineResult.success))
    /\ UNCHANGED <<tool, req, fileContent, traceText, selectors, signatures,
                   sigIdx>>

\* the existence check with the missing file reported as in
\* cast_4byte_from_file
A_Access_Strict ==
    /\ tool = "analyze_transaction_trace"
    /\ pc = "access"
    /\ \E fileExists \in BOOLEAN :
          IF fileExists
          THEN /\ calls' = Append(Returned(fileExists),
                                  Call("fs_readFile", req.filePath))
               /\ pc' = "read"
               /\ UNCHANGED <<selectorMap, idx, response>>
          ELSE /\ response' = FileNotFound(req.filePath)
               /\ pc' = "done"
               /\ calls' = Returned(fileExists)
               /\ UNCHANGED <<selectorMap, idx>>
    /\ UNCHANGED <<tool, req, fileContent, traceText, selectors,
                   onlineSignatures, signatures, sigIdx, matchingSignatures>>

A_Access ==
    /\ tool = "analyze_transaction_trace"
    /\ pc = "access"
    /\ \E fileExists \in BOOLEAN :
          IF fileExists
          THEN /\ calls' = Append(Returned(fileExists),
                                  Call("fs_readFile", req.filePath))
               /\ pc' = "read"
               /\ UNCHANGED <<selectorMap, idx, response>>
          ELSE A_Finish(onlineSignatures, matchingSignatures,
                        Returned(fileExists))
    /\ UNCHANGED <<tool, req, fileContent, traceText, selectors,
                   onlineSignatures, signatures, sigIdx, matchingSignatures>>

\* fileContent.split('\n').map(line => line.trim())
\*     .filter(line => line && !line.startsWith('#') && line.includes('('))
AnalyzeSignatures(content) == SelectSeq(FileSignatures(content), HasParen)

A_Read ==
    /\ tool = "analyze_transaction_trace"
    /\ pc = "read"
    /\ \E readOk \in BOOLEAN :
          IF ~readOk
          THEN \* no try block encloses the read: the rejection leaves the
               \* handler
               /\ response' = Thrown
               /\ pc' = "done"
               /\ calls' = Returned(readOk)
               /\ UNCHANGED <<selectorMap, idx, signatures, sigIdx>>
          ELSE LET sigs == AnalyzeSignatures(fileContent)
               IN  /\ signatures' = sigs
                   /\ IF Len(sigs) = 0
                      THEN /\ A_Finish(onlineSignatures, matchingSignatures,
                                       Returned(readOk))
                           /\ sigIdx' = sigIdx
                      ELSE /\ calls' = Append(Returned(readOk),
                                              Call("cast_sig", sigs[1]))
                           /\ sigIdx' = 1
                           /\ pc' = "sig"
                           /\ UNCHANGED <<selectorMap, idx, response>>
    /\ UNCHANGED <<tool, req, fileContent, traceText, selectors,
                   onlineSignatures, matchingSignatures>>

A_Sig ==
    /\ tool = "analyze_transaction_trace"
    /\ pc = "sig"
    /\ \E proc \in SigProcs(signatures[sigIdx]) :
          LET sigResult == ExecuteCommand(proc)
              local == IF sigResult.success
                            /\ Trim(sigResult.message) = selectors[idx]
                       THEN Append(matchingSignatures, signatures[sigIdx])
                       ELSE matchingSignatures
          IN  /\ matchingSignatures' = local
              /\ IF sigIdx < Len(signatures)
                 THEN /\ calls' =
                             Append(Returned(sigResult.success),
                                    Call("cast_sig", signatures[sigIdx + 1]))
                      /\ sigIdx' = sigIdx + 1
                      /\ UNCHANGED <<selectorMap, idx, pc, response>>
                 ELSE /\ A_Finish(onlineSignatures, local,
                                  Returned(sigResult.success))
                      /\ sigIdx' = sigIdx
    /\ UNCHANGED <<tool, req, fileContent, traceText, selectors,
                   onlineSignatures, signatures>>

Next ==
    \/ Start
    \/ F_Installed
    \/ F_Online
    \/ F_Access
    \/ F_Read
    \/ F_Sig
    \/ T_Installed
    \/ T_Rpc
    \/ C_Trace
    \/ C_Online
    \/ A_Trace
    \/ A_Online
    \/ A_Access
    \/ A_Read
    \/ A_Sig

Spec == Init /\ [][Next]_vars

\* the event loop resumes a handler that has not ended: the outstanding call
\* returns, with a result or a failure, and the handler runs to its next
\* await, where it issues at most one call
Advance ==
    /\ pc # "done"
    /\ IF calls # <<>> /\ calls[Len(calls)].status = "pending"
       THEN \/ \E ok \in BOOLEAN : calls' = Returned(ok)
            \/ /\ Len(calls') = Len(calls) + 1
               /\ calls'[Len(calls')].status = "pending"
               /\ \E ok \in BOOLEAN :
                      SubSeq(calls', 1, Len(calls)) = Returned(ok)
       ELSE \E kind \in {"forge_version", "cast_run"} :
                calls' = Append(calls, Call(kind, <<>>))

\* every external call that is outstanding returns
SpecLive == Spec /\ WF_calls(Advance)

-----------------------------------------------------------------------------
(* Extraction claims *)

\* a selector-shaped substring starts at i and is not followed by a hex digit
QualifiesAt(text, i) == MatchesAt(text, i)

QualifyingPositions(text) == {i \in 1..Len(text) : QualifiesAt(text, i)}

QualifyingSelectors(text) ==
    {SubSeq(text, i, i + SelectorLen - 1) : i \in QualifyingPositions(text)}

\* C1: the extracted set is exactly the set of substrings "0x" + 8 hex
\* characters that occur somewhere in the text with no hex digit after them.
C1_ExactSet ==
    pc = "done" /\ tool = "extract"
        => Range(selectors) = QualifyingSelectors(traceText)

FirstQualifying(text, s) ==
    CHOOSE i \in QualifyingPositions(text) :
        /\ SubSeq(text, i, i + SelectorLen - 1) = s
        /\ \A j \in QualifyingPositions(text) :
               SubSeq(text, j, j + SelectorLen - 1) = s => i <= j

\* C2: the extracted list holds each selector once and is ordered by the
\* position of the first qualifying occurrence of each selector.
C2_FirstOccurrenceOrder ==
    pc = "done" /\ tool = "extract"
        => /\ \A i, j \in 1..Len(selectors) :
                  i < j => selectors[i] # selectors[j]
           /\ \A i, j \in 1..Len(selectors) :
                  i < j => FirstQualifying(traceText, selectors[i])
                               < FirstQualifying(traceText, selectors[j])

-----------------------------------------------------------------------------
(* Vocabulary of the handler claims *)

Done == pc = "done"

OfKind(kind) == SelectSeq(calls, LAMBDA c : c.kind = kind)

\* the directory lookups issued so far, in order
Lookups == OfKind("cast_4byte")

\* position in the call log of the k-th directory lookup
LookupPos(k) ==
    CHOOSE i \in DOMAIN calls :
        /\ calls[i].kind = "cast_4byte"
        /\ Cardinality({j \in 1..i : calls[j].kind = "cast_4byte"}) = k

\* the hash commands that returned while the k-th selector was resolved
HashedFor(k) ==
    LET last == IF k < Len(Lookups) THEN LookupPos(k + 1) - 1 ELSE Len(calls)
    IN  SelectSeq(SubSeq(calls, LookupPos(k), last),
                  LAMBDA c : c.kind = "cast_sig" /\ c.status # "pending")

Args(cs) == [k \in 1..Len(cs) |-> cs[k].arg]

TraceSucceeded ==
    \E i \in DOMAIN calls :
        calls[i].kind = "cast_run" /\ calls[i].status = "ok"

NoSelectorTrace == TraceSucceeded /\ QualifyingSelectors(traceText) = {}

NoLookupIssued ==
    \A i \in DOMAIN calls : calls[i].kind \notin {"cast_4byte", "cast_sig"}

\* "0x" and 8 hex characters, nothing else
SelectorShaped(s) ==
    /\ Len(s) = 10
    /\ SubSeq(s, 1, 2) = <<"0", "x">>
    /\ \A k \in 3..10 : s[k] \in HexChars

\* the line of the report that opens the block of a selector
BlockStart(s) ==
    CHOOSE p \in DOMAIN response.lines : response.lines[p] = TxtSelector \o s

-----------------------------------------------------------------------------
(* Handler claims *)

\* C3 as stated: with no selector in the trace, both trace tools issue no
\* lookup and return the trace text unchanged with a report of no selector.
C3_TextAndReport ==
    Done /\ tool \in TraceTools /\ NoSelectorTrace
        => /\ NoLookupIssued
           /\ response.trace = traceText
           /\ response.kind
                  = "No function selectors found in the transaction trace."

\* C3 amended: with no selector in the trace, both trace tools end at once
\* without a lookup and without an error flag; cast_trace returns the trace
\* text unchanged and says nothing of selectors, analyze_transaction_trace
\* returns only the message that no selector was found.
C3_NoSelectors ==
    tool \in TraceTools /\ NoSelectorTrace
        => /\ Done
           /\ NoLookupIssued
           /\ ~response.thrown
           /\ ~response.isError
           /\ response.lines = <<>>
           /\ tool = "cast_trace"
                  => /\ response.kind = "Transaction trace for"
                     /\ response.trace = traceText
           /\ tool = "analyze_transaction_trace"
                  => /\ response.kind
                            = "No function selectors found in the transaction trace."
                     /\ response.trace = <<>>

C3_Witness ==
    /\ Done
    /\ tool = "analyze_transaction_trace"
    /\ NoSelectorTrace
    /\ Len(traceText) > 0
    /\ ~response.isError

\* C4 as stated: a selector of the wrong shape is rejected with an error and
\* no external call is made at any point of the request.
C4_NoExternalCall ==
    tool = "cast_4byte_from_file" /\ ~SelectorShaped(req.selector)
        => /\ calls = <<>>
           /\ Done => response.isError /\ ~response.thrown

\* C4 amended: a selector of the wrong shape is rejected with an error, and
\* the installation check that opens the handler is the only external call
\* of the request: no lookup, no hash command, no file access.
C4_OnlyInstallCheck ==
    tool = "cast_4byte_from_file" /\ ~SelectorShaped(req.selector)
        => /\ Len(calls) <= 1
           /\ \A i \in DOMAIN calls : calls[i].kind = "forge_version"
           /\ pc \in {"start", "installed", "done"}
           /\ Done => response.isError /\ ~response.thrown

C4_Witness ==
    /\ Done
    /\ tool = "cast_4byte_from_file"
    /\ req.selector = <<"0", "x", "d", "e", "a", "d", "b", "e", "e">>
    /\ response.kind = "Invalid selector format."

\* the local matches of the k-th selector of a trace analysis: the
\* signatures whose hash command succeeded with that selector
ExpectedLocal(k) ==
    Args(SelectSeq(HashedFor(k),
                   LAMBDA c : c.status = "ok" /\ CastSig(c.arg) = selectors[k]))

C5_State ==
    tool \in TraceTools
        => /\ \A k \in 1..Len(Lookups) :
                  LET c == calls[LookupPos(k)]
                      set == k <= Len(selectorMap)
                      online == IF set THEN selectorMap[k].online
                                ELSE onlineSignatures
                      local == IF set THEN selectorMap[k].local
                               ELSE matchingSignatures
                  IN  /\ c.arg = selectors[k]
                      /\ c.status # "pending"
                             /\ tool = "analyze_transaction_trace"
                             => /\ c.status = "failed" => online = <<>>
                                /\ local = ExpectedLocal(k)
                      /\ c.status = "failed" /\ tool = "cast_trace"
                             => \A j \in DOMAIN selectorMap :
                                    selectorMap[j].selector # selectors[k]
           /\ Done /\ Len(Lookups) > 0
                  => IF response.thrown
                     THEN /\ calls[Len(calls)].kind = "fs_readFile"
                          /\ calls[Len(calls)].status = "failed"
                     ELSE /\ ~response.isError
                          /\ Len(Lookups) = Len(selectors)

C5_Kept ==
    tool \in TraceTools
        => /\ Len(selectorMap') >= Len(selectorMap)
           /\ \A k \in DOMAIN selectorMap :
                  /\ selectorMap'[k].selector = selectorMap[k].selector
                  /\ selectorMap'[k].local = selectorMap[k].local
                  /\ Len(selectorMap'[k].online) = Len(selectorMap[k].online)
                  /\ Range(selectorMap'[k].online)
                         = Range(selectorMap[k].online)

\* C5: in the trace tools a failed directory lookup leaves the remote list of
\* its selector empty and a failed hash command adds nothing to the local
\* list, the other signatures and selectors being resolved as if nothing
\* failed; every step keeps the entries already in the map; the lookup of
\* every selector is issued and the response carries no error flag, the only
\* request that ends otherwise being ended by a failed read of the file.
C5_Degraded == []C5_State /\ [][C5_Kept]_vars

C5_Witness ==
    /\ Done
    /\ tool = "analyze_transaction_trace"
    /\ ~response.thrown
    /\ Len(selectorMap) = 2
    /\ calls[LookupPos(1)].status = "failed"
    /\ \E i \in 1..(LookupPos(2) - 1) :
           calls[i].kind = "cast_sig" /\ calls[i].status = "failed"
    /\ selectorMap[2].online # <<>>
    /\ selectorMap[2].local # <<>>

\* C6: every request of the three tools ends in a returned value, a failure
\* being a text with the error flag; no exception leaves the handler, a
\* failed read of the signature file included.
C6_AlwaysResponse ==
    Done /\ tool \in HandlerTools
        => /\ ~response.thrown
           /\ (\E i \in DOMAIN calls :
                   calls[i].kind = "fs_readFile" /\ calls[i].status = "failed")
                  => response.isError

\* C7: in cast_4byte_from_file a missing signature file ends the request with
\* an error that names the file, and no hash command is executed.
C7_MissingFile ==
    /\ tool = "cast_4byte_from_file"
    /\ \E i \in DOMAIN calls :
           calls[i].kind = "fs_access" /\ calls[i].status = "failed"
    => /\ Done
       /\ ~response.thrown
       /\ response.isError
       /\ response.kind = "Signatures file not found:"
       /\ response.subject = req.filePath
       /\ \A i \in DOMAIN calls :
              calls[i].kind \notin {"cast_sig", "fs_readFile"}

C7_Witness ==
    /\ Done
    /\ tool = "cast_4byte_from_file"
    /\ calls[Len(calls)].kind = "fs_access"
    /\ calls[Len(calls)].status = "failed"
    /\ onlineSignatures # <<>>

\* the block of the k-th selector shows its remote candidates and nothing
\* local
RemoteOnlyBlock(k) ==
    LET p == BlockStart(selectors[k])
        online == selectorMap[k].online
        n == Len(online)
    IN  IF n = 0
        THEN response.lines[p + 1] = TxtNoMatches
        ELSE /\ response.lines[p + 1]
                    = TxtOnlineMatches \o Digits(n) \o TxtCountEnd
             /\ \A i \in 1..(IF n < 5 THEN n ELSE 5) :
                    response.lines[p + 1 + i] = TxtItem \o online[i]

\* C8: in analyze_transaction_trace a signature file that is supplied but
\* missing does not fail the request: every local list is empty, the remote
\* lookup of every selector is issued and reported, no error flag is set.
C8_MissingFileDegrades ==
    /\ Done
    /\ tool = "analyze_transaction_trace"
    /\ req.hasFile
    /\ OfKind("fs_access") # <<>>
    /\ \A i \in DOMAIN calls :
           calls[i].kind = "fs_access" => calls[i].status = "failed"
    => /\ ~response.thrown
       /\ ~response.isError
       /\ response.kind = "Analysis of transaction"
       /\ Args(Lookups) = selectors
       /\ \A i \in DOMAIN calls : calls[i].status # "pending"
       /\ Len(selectorMap) = Len(selectors)
       /\ \A k \in DOMAIN selectors :
              /\ selectorMap[k].selector = selectors[k]
              /\ selectorMap[k].local = <<>>
              /\ RemoteOnlyBlock(k)
       /\ \A p \in DOMAIN response.lines :
              Substring(response.lines[p], Len(TxtLocalMatches))
                  # TxtLocalMatches

C8_Witness ==
    /\ Done
    /\ tool = "analyze_transaction_trace"
    /\ req.hasFile
    /\ Len(OfKind("fs_access")) = 2
    /\ \A i \in DOMAIN calls :
           calls[i].kind = "fs_access" => calls[i].status = "failed"
    /\ selectorMap[1].online # <<>>
    /\ selectorMap[2].online # <<>>

\* the hash commands of cast_4byte_from_file that have returned
Hashed ==
    SelectSeq(calls, LAMBDA c : c.kind = "cast_sig" /\ c.status # "pending")

\* what one hashed line adds to the match list
ExpectedEntry(c) ==
    LET computed == CastSig(c.arg)
    IN  IF c.status = "ok" /\ computed = req.selector
        THEN <<c.arg>>
        ELSE IF /\ c.status = "ok"
                /\ req.fuzzyMatch
                /\ SubSeq(computed, 1, 6) = SubSeq(req.selector, 1, 6)
             THEN <<c.arg \o TxtPartial \o computed \o <<")">> >>
             ELSE <<>>

\* the trimmed lines of the file that are candidates
CandidateLines ==
    LET pieces == SplitLines(fileContent)
        trimmed == [i \in 1..Len(pieces) |-> Trim(pieces[i])]
    IN  SelectSeq(trimmed,
                  LAMBDA l : l # <<>> /\ l[1] # "#" /\ "(" \in Range(l))

\* C9: in cast_4byte_from_file the match list holds, in file order, every
\* candidate line whose computed selector is the target, verbatim, and with
\* fuzzy matching every other line whose computed selector shares the first
\* 6 characters of the target, as '<signature> (partial match: <selector>)';
\* without fuzzy matching it holds exact matches only.
C9_MatchList ==
    tool = "cast_4byte_from_file"
        => /\ matchingSignatures
                  = Flatten([k \in 1..Len(Hashed) |-> ExpectedEntry(Hashed[k])])
           /\ Done /\ response.kind = "Results for selector"
                  => /\ Args(Hashed) = CandidateLines
                     /\ IF matchingSignatures = <<>>
                        THEN response.lines[1] = TxtNoMatchingLocal
                        ELSE SubSeq(response.lines, 1,
                                    1 + Len(matchingSignatures))
                                 = <<TxtMatchingLocal>> \o matchingSignatures

C9_Witness ==
    /\ Done
    /\ tool = "cast_4byte_from_file"
    /\ req.fuzzyMatch
    /\ response.kind = "Results for selector"
    /\ matchingSignatures
           = <<SigP \o TxtPartial \o SelP \o <<")">>, SigA>>

\* the block of a map entry in the report
BlockAsClaimed(e) ==
    LET lines == response.lines
        p == BlockStart(e.selector)
        m == Len(e.local)
        n == Len(e.online)
        q == IF m > 0 THEN p + 1 + m ELSE p
        shown == IF n < 5 THEN n ELSE 5
    IN  /\ m > 0 => /\ lines[p + 1]
                           = TxtLocalMatches \o Digits(m) \o TxtCountEnd
                    /\ \A i \in 1..m : lines[p + 1 + i] = TxtItem \o e.local[i]
        /\ n > 0 => /\ lines[q + 1]
                           = TxtOnlineMatches \o Digits(n) \o TxtCountEnd
                    /\ \A i \in 1..shown :
                           lines[q + 1 + i] = TxtItem \o e.online[i]
                    /\ IF n > 5
                       THEN /\ lines[q + 2 + shown]
                                   = TxtItem \o TxtAnd \o Digits(n - 5)
                                         \o TxtMore
                            /\ lines[q + 3 + shown] = <<>>
                       ELSE lines[q + 2 + shown] = <<>>

\* C10: a report block lists every local candidate, then the first min(n,5)
\* of the n remote candidates in response order, then '... and (n-5) more'
\* exactly when n > 5.
C10_OnlineOverflow ==
    /\ Done
    /\ tool = "analyze_transaction_trace"
    /\ response.kind = "Analysis of transaction"
    => \A k \in DOMAIN selectorMap : BlockAsClaimed(selectorMap[k])

C10_Witness ==
    /\ Done
    /\ tool = "analyze_transaction_trace"
    /\ response.kind = "Analysis of transaction"
    /\ Len(selectorMap) = 2
    /\ Len(selectorMap[1].online) = 4
    /\ Len(selectorMap[2].online) = 7
    /\ Len(selectorMap[2].local) = 2

-----------------------------------------------------------------------------
(* Ranking and annotation claims *)

\* piece occurs somewhere in text
Occurs(piece, text) ==
    \E i \in 1..(Len(text) - Len(piece) + 1) :
        SubSeq(text, i, i + Len(piece) - 1) = piece

\* rank of list[i] when the list is ordered by length, ties in list order
RankOf(list, i) ==
    1 + Cardinality({j \in DOMAIN list :
                         \/ Len(list[j]) < Len(list[i])
                         \/ Len(list[j]) = Len(list[i]) /\ j < i})

Ranked(list) ==
    [r \in DOMAIN list |->
        list[CHOOSE i \in DOMAIN list : RankOf(list, i) = r]]

\* 'Likely: ' and the first three ranked candidates joined with ' or '
LikelyText(list) ==
    LET ranked == Ranked(list)
        kept == SubSeq(ranked, 1, IF Len(ranked) < 3 THEN Len(ranked) ELSE 3)
    IN  TxtLikely \o Join(kept, TxtOr)

C11_Inserted ==
    tool = "cast_trace" /\ pc = "online" /\ pc' = "done"
        => \A k \in DOMAIN selectorMap :
               Occurs(selectorMap[k].selector \o <<" ", "[">>
                          \o LikelyText(selectorMap[k].online) \o <<"]">>,
                      response'.trace)

\* C11: when cast_trace returns, the text inserted after a resolved selector
\* is 'Likely: ' followed by at most 3 of its candidates joined with ' or ',
\* the candidates taken in ascending order of length, ties in response order.
C11_LikelyText == [][C11_Inserted]_vars

\* the signature that annotates a map entry: the first local match, else the
\* first remote candidate, else none
Chosen(e) ==
    IF e.local # <<>> THEN e.local[1]
    ELSE IF e.online # <<>> THEN e.online[1]
    ELSE <<>>

\* the trace after the annotator has run for the entries from k on, each with
\* its chosen signature
RECURSIVE ChosenTrace(_, _)
ChosenTrace(k, text) ==
    IF k > Len(selectorMap) THEN text
    ELSE LET e == selectorMap[k]
         IN  ChosenTrace(k + 1,
                 IF Chosen(e) = <<>> THEN text
                 ELSE ReplaceAll(text, e.selector,
                          e.selector \o <<" ", "[">> \o Chosen(e)
                              \o <<"]">>))

\* no occurrence of selector s in text is followed by ' ['
Unannotated(s, text) ==
    ~Occurs(s \o <<" ", "[">>, text)

\* C12: in the simplified trace of analyze_transaction_trace a selector is
\* annotated with its first local match if it has one, otherwise with its
\* first remote candidate if it has one, and a selector with neither is left
\* unannotated.
C12_BestMatch ==
    /\ Done
    /\ tool = "analyze_transaction_trace"
    /\ response.kind = "Analysis of transaction"
    => /\ response.trace = ChosenTrace(1, traceText)
       /\ \A k \in DOMAIN selectorMap :
              Chosen(selectorMap[k]) = <<>>
                  => Unannotated(selectorMap[k].selector, response.trace)

C12_Witness ==
    /\ Done
    /\ tool = "analyze_transaction_trace"
    /\ response.kind = "Analysis of transaction"
    /\ Len(selectorMap) = 2
    /\ selectorMap[1].local # <<>>
    /\ Len(selectorMap[1].online) > 1
    /\ selectorMap[2].local = <<>>
    /\ selectorMap[2].online = <<>>
    /\ response.trace # traceText

\* the annotation the tool gives a map entry, <<>> when it has no candidate
AnnotationOf(e) ==
    IF tool = "cast_trace"
    THEN (IF e.online = <<>> THEN <<>> ELSE LikelyText(e.online))
    ELSE Chosen(e)

\* text with every occurrence of selector s that no hex digit follows
\* replaced by s and ' [annotation]', taken literally, from position from on
RECURSIVE Bracketed(_, _, _, _)
Bracketed(text, from, s, annotation) ==
    LET found == {i \in from..Len(text) :
                      /\ i + Len(s) - 1 <= Len(text)
                      /\ SubSeq(text, i, i + Len(s) - 1) = s
                      /\ i + Len(s) <= Len(text)
                             => text[i + Len(s)] \notin HexChars}
        first == Min(found)
    IN  IF found = {} THEN SubSeq(text, from, Len(text))
        ELSE SubSeq(text, from, first - 1)
                 \o s \o <<" ", "[">> \o annotation \o <<"]">>
                 \o Bracketed(text, first + Len(s), s, annotation)

\* the entries of the map from k on, applied in map order
RECURSIVE BracketedAll(_, _)
BracketedAll(k, text) ==
    IF k > Len(selectorMap) THEN text
    ELSE LET e == selectorMap[k]
         IN  BracketedAll(k + 1,
                 IF AnnotationOf(e) = <<>> THEN text
                 ELSE Bracketed(text, 1, e.selector, AnnotationOf(e)))

\* the request went through the annotator
Annotated ==
    /\ Done
    /\ tool \in TraceTools
    /\ ~response.thrown
    /\ ~response.isError
    /\ Len(selectors) > 0

\* C13: in the returned trace every occurrence of a resolved selector that
\* no hex digit follows reads '<selector> [<annotation>]', and the
\* occurrences of a selector with no candidate are as they were: the trace is
\* the original text with exactly these replacements.
C13_GlobalReplace ==
    Annotated => response.trace = BracketedAll(1, traceText)

-----------------------------------------------------------------------------
(* The annotator applied to its own output *)

\* text.replace(new RegExp(selector + "(?![a-fA-F0-9])", "g"),
\*              `${selector} [${annotation}]`)
Annotator(text, selector, annotation) ==
    ReplaceAll(text, selector,
               selector \o <<" ", "[">> \o annotation \o <<"]">>)

\* a candidate whose name holds the selector SelA
CandSelA == <<"f">> \o SelA \o <<"(", ")">>

\* what a selector is annotated with
Annotations ==
    {SigA, TxtLikely \o SigA \o TxtOr \o SigB, CandDollar, CandSelA}

InitAnnotate ==
    /\ tool = "annotate"
    /\ pc = "start"
    /\ req \in [selector : {SelA, SelB}, annotation : Annotations]
    /\ fileContent = <<>>
    /\ traceText \in TraceTexts
    /\ selectors = <<>>
    /\ idx = 0
    /\ selectorMap = <<>>
    /\ onlineSignatures = <<>>
    /\ signatures = <<>>
    /\ sigIdx = 0
    /\ matchingSignatures = <<>>
    /\ calls = <<>>
    /\ response = NoValue

\* one pass of the annotator, the second on the output of the first
Annotate ==
    /\ tool = "annotate"
    /\ pc \in {"start", "once"}
    /\ response' = Annotator(IF pc = "start" THEN traceText ELSE response,
                             req.selector, req.annotation)
    /\ pc' = IF pc = "start" THEN "once" ELSE "twice"
    /\ UNCHANGED <<tool, req, fileContent, traceText, selectors, idx,
                   selectorMap, onlineSignatures, signatures, sigIdx,
                   matchingSignatures, calls>>

NextAnnotate == Annotate

SpecAnnotate == InitAnnotate /\ [][NextAnnotate]_vars

\* C14: a pass of the annotator is a function of the text, the selector and
\* the annotation, and a second pass on the output of the first leaves every
\* occurrence of the selector with two annotation suffixes:
\* '<selector> [<annotation>] [<annotation>]'.
C14_TwoSuffixes ==
    tool = "annotate" /\ pc = "twice"
        => response = Bracketed(traceText, 1, req.selector,
                                req.annotation \o <<"]", " ", "[">>
                                    \o req.annotation)

-----------------------------------------------------------------------------
(* Signature file and error claims *)

IsPrefix(a, b) == Len(a) <= Len(b) /\ a = SubSeq(b, 1, Len(a))

\* the calls from the k-th directory lookup up to the next one
Segment(k) ==
    SubSeq(calls, LookupPos(k),
           IF k < Len(Lookups) THEN LookupPos(k + 1) - 1 ELSE Len(calls))

\* the hash commands issued while the k-th selector was resolved
IssuedFor(k) == SelectSeq(Segment(k), LAMBDA c : c.kind = "cast_sig")

\* the file was read while the k-th selector was resolved
ReadFor(k) ==
    \E i \in DOMAIN Segment(k) :
        Segment(k)[i].kind = "fs_readFile" /\ Segment(k)[i].status = "ok"

\* the resolution of the k-th selector has ended
Resolved(k) ==
    \/ k < Len(Lookups)
    \/ Done /\ ~response.thrown /\ ~response.isError

\* C15: in cast_4byte_from_file and analyze_transaction_trace the lines
\* handed to the hash command for a selector are, once the file has been
\* read, exactly the trimmed lines of the file that are non-empty, do not
\* start with '#' and contain '(', in file order with repetitions; at no
\* moment has any other line been hashed, and none is hashed when the file
\* was not read.
C15_HashedLines ==
    tool \in {"cast_4byte_from_file", "analyze_transaction_trace"}
        => \A k \in 1..Len(Lookups) :
               /\ IsPrefix(Args(IssuedFor(k)), CandidateLines)
               /\ ~ReadFor(k) => IssuedFor(k) = <<>>
               /\ ReadFor(k) /\ Resolved(k)
                      => Args(IssuedFor(k)) = CandidateLines

C15_Witness ==
    /\ Done
    /\ tool = "analyze_transaction_trace"
    /\ response.kind = "Analysis of transaction"
    /\ Len(selectors) = 2
    /\ Len(SplitLines(fileContent)) = 2
    /\ Len(CandidateLines) = 1
    /\ Len(IssuedFor(1)) = 1
    /\ Len(IssuedFor(2)) = 1

\* the status of the first call of a kind, "none" if there is none
StatusOf(kind) ==
    IF OfKind(kind) = <<>> THEN "none" ELSE OfKind(kind)[1].status

\* C16: a cast_4byte_from_file request on an installed toolchain ends with
\* an error flag only for a selector of the wrong shape or a missing
\* signature file; with a valid selector and a file that is found and read,
\* whatever the lookup, the hash commands and the lines of the file, the
\* response has no error flag and carries the results.
C16_OnlyTwoErrors ==
    /\ Done
    /\ tool = "cast_4byte_from_file"
    /\ StatusOf("forge_version") = "ok"
    /\ SelectorShaped(req.selector)
    /\ StatusOf("fs_access") = "ok"
    /\ StatusOf("fs_readFile") = "ok"
    => /\ ~response.thrown
       /\ ~response.isError
       /\ response.kind = "Results for selector"

-----------------------------------------------------------------------------
(* Report claims *)

\* the lines of the block of selector s: from the line after its 'Selector:'
\* line to the line before the empty line that closes the block
BlockLines(s) ==
    LET p == BlockStart(s)
        q == Min({i \in (p + 1)..Len(response.lines) :
                      response.lines[i] = <<>>})
    IN  SubSeq(response.lines, p + 1, q - 1)

\* some line of the list starts with the text
HasLine(lines, start) ==
    \E i \in DOMAIN lines : IsPrefix(start, lines[i])

\* C17: in the analysis report the block of a selector has the line 'No
\* matches found' exactly when its local and remote lists are both empty, a
\* 'Local matches' section exactly when the local list is non-empty and an
\* 'Online matches' section exactly when the remote list is non-empty; the
\* response has no error flag, whatever the number of selectors without a
\* match.
C17_NoMatchReported ==
    /\ Done
    /\ tool = "analyze_transaction_trace"
    /\ response.kind = "Analysis of transaction"
    => /\ ~response.isError
       /\ ~response.thrown
       /\ \A k \in DOMAIN selectorMap :
              LET e == selectorMap[k]
                  block == BlockLines(e.selector)
              IN  /\ (\E i \in DOMAIN block : block[i] = TxtNoMatches)
                         <=> (e.local = <<>> /\ e.online = <<>>)
                  /\ HasLine(block, TxtLocalMatches) <=> e.local # <<>>
                  /\ HasLine(block, TxtOnlineMatches) <=> e.online # <<>>

C17_Witness ==
    /\ Done
    /\ tool = "analyze_transaction_trace"
    /\ response.kind = "Analysis of transaction"
    /\ Len(selectorMap) = 2
    /\ selectorMap[1].local = <<>>
    /\ selectorMap[1].online = <<>>
    /\ selectorMap[2].local # <<>>
    /\ selectorMap[2].online = <<>>
    /\ BlockLines(selectorMap[1].selector) = <<TxtNoMatches>>

-----------------------------------------------------------------------------
(* Sequencing claims *)

Pending(cs) == SelectSeq(cs, LAMBDA c : c.status = "pending")

\* C18: in a trace request at most one external call is outstanding at any
\* moment, and it is the last one issued; the directory lookups are issued
\* in the order of the selector list, and when the lookup of a selector is
\* issued every call made for the selectors before it (lookup, file access,
\* hash commands) has returned.
C18_OneAtATime ==
    tool \in TraceTools
        => /\ Len(Pending(calls)) <= 1
           /\ \A i \in 1..(Len(calls) - 1) : calls[i].status # "pending"
           /\ IsPrefix(Args(Lookups), selectors)
           /\ \A k \in 1..(Len(Lookups) - 1) : Pending(Segment(k)) = <<>>

C18_Witness ==
    /\ tool = "analyze_transaction_trace"
    /\ Len(Lookups) = 2
    /\ Len(IssuedFor(1)) = 2
    /\ Len(IssuedFor(2)) = 1
    /\ calls[Len(calls)].kind = "cast_sig"
    /\ calls[Len(calls)].status = "pending"

\* number of directory lookups issued for selector s
LookupCount(s) == Cardinality({i \in DOMAIN Lookups : Lookups[i].arg = s})

MapKept ==
    tool \in TraceTools
        => \A k \in DOMAIN selectorMap :
               /\ k <= Len(selectorMap')
               /\ selectorMap'[k] = selectorMap[k]

\* C20: the resolution map is written by the resolving step only: an entry,
\* once set, keeps its candidate lists in content and order through the
\* ranking, annotation and report steps that end the request.
C20_MapFrame == [][MapKept]_vars

-----------------------------------------------------------------------------
(* Termination claims *)

\* a call is outstanding
Outstanding == calls # <<>> /\ calls[Len(calls)].status = "pending"

\* most calls of a trace request: the installation check, the trace command
\* and for every selector its lookup, the two file operations and one hash
\* command for each candidate line
CallBound == 2 + Len(selectors) * (3 + Len(CandidateLines))

\* while a call is outstanding the request has not answered, and its calls
\* stay within the bound
C21_State ==
    tool \in TraceTools
        => /\ Outstanding => ~Done
           /\ Len(calls) <= CallBound \/ selectors = <<>>
           /\ selectors = <<>> => Len(calls) <= 2

\* a step of the request is the return of the outstanding call: nothing else
\* moves it, so nothing is looked up or answered while a call is outstanding
C21_Step ==
    tool \in TraceTools /\ Outstanding
        => /\ Len(calls') >= Len(calls)
           /\ calls'[Len(calls)].status # "pending"

-----------------------------------------------------------------------------
(* Matching claims *)

\* an entry of the match list that carries the partial-match label
IsPartial(entry) == Occurs(TxtPartial, entry)

\* some line of the file was hashed to the target selector
ExactHashed ==
    \E i \in DOMAIN Hashed :
        Hashed[i].status = "ok" /\ CastSig(Hashed[i].arg) = req.selector

\* C22 as stated: the match list of cast_4byte_from_file holds a
\* partial-match entry only when fuzzy matching is enabled and no line of
\* the file matched the target selector exactly.
C22_Fallback ==
    tool = "cast_4byte_from_file"
        => \A i \in DOMAIN matchingSignatures :
               IsPartial(matchingSignatures[i])
                   => req.fuzzyMatch /\ ~ExactHashed

\* C22 amended: the match list of cast_4byte_from_file holds a partial-match
\* entry only when fuzzy matching is enabled, and the entry is that of a
\* line whose hash command succeeded with a selector that is not the target
\* and has its first 6 characters; lines that match exactly are listed
\* beside it.
C22_PartialPerLine ==
    tool = "cast_4byte_from_file"
        => \A i \in DOMAIN matchingSignatures :
               IsPartial(matchingSignatures[i])
                   => /\ req.fuzzyMatch
                      /\ \E j \in DOMAIN Hashed :
                             LET computed == CastSig(Hashed[j].arg)
                             IN  /\ Hashed[j].status = "ok"
                                 /\ computed # req.selector
                                 /\ SubSeq(computed, 1, 6)
                                        = SubSeq(req.selector, 1, 6)
                                 /\ matchingSignatures[i]
                                        = Hashed[j].arg \o TxtPartial
                                              \o computed \o <<")">>

C22_Witness ==
    /\ Done
    /\ tool = "cast_4byte_from_file"
    /\ req.fuzzyMatch
    /\ response.kind = "Results for selector"
    /\ matchingSignatures
           = <<SigA, SigP \o TxtPartial \o SelP \o <<")">> >>

\* a character in lower case
LowerChar(c) ==
    CASE c = "A" -> "a" [] c = "B" -> "b" [] c = "C" -> "c"
      [] c = "D" -> "d" [] c = "E" -> "e" [] c = "F" -> "f"
      [] OTHER -> c

Lower(s) == [i \in DOMAIN s |-> LowerChar(s[i])]

\* C23: in cast_4byte_from_file a line whose computed selector differs from
\* a valid target selector at most in the letter case of its hex digits is
\* in the match list as an exact match.
C23_CaseInsensitive ==
    tool = "cast_4byte_from_file" /\ SelectorShaped(req.selector)
        => \A i \in DOMAIN Hashed :
               /\ Hashed[i].status = "ok"
               /\ Lower(CastSig(Hashed[i].arg)) = Lower(req.selector)
               => \E j \in DOMAIN matchingSignatures :
                      matchingSignatures[j] = Hashed[i].arg

-----------------------------------------------------------------------------
(* Left boundary claims *)

\* the selector made of "0x" and the last 8 hex digits of a literal
TailSelector(lit) == <<"0", "x">> \o SubSeq(lit, Len(lit) - 7, Len(lit))

\* the literals that stand in the text
LiteralsIn(text) == {lit \in {Address, Hash} : Occurs(lit \o <<" ">>, text \o <<" ">>)}

\* C24 as stated: for a trace that contains an address or a hash, the
\* extracted set contains the selector formed from the last 8 hex digits of
\* that literal.
C24_TailExtracted ==
    tool = "extract" /\ pc = "done"
        => \A lit \in LiteralsIn(traceText) :
               TailSelector(lit) \in Range(selectors)

\* s stands at position i of text: "0x" included, no hex digit after it
StandsAt(text, i, s) ==
    /\ i + Len(s) - 1 <= Len(text)
    /\ SubSeq(text, i, i + Len(s) - 1) = s
    /\ i + Len(s) <= Len(text) => text[i + Len(s)] \notin HexChars

\* the texts of the model whose only "0x" opens an address or a hash
OnlyLiteral ==
    {pre \o lit \o post :
        pre \in {<<>>, <<"g", " ">>},
        lit \in {Address, Hash},
        post \in {<<>>, <<" ">>}}

\* C24 amended: every extracted selector stands in the text with its "0x"
\* prefix and with no hex digit after it, so the last 8 hex digits of an
\* address or a hash, which no "0x" precedes, are not extracted: a trace
\* whose only "0x" opens such a literal gives no selector.
C24_PrefixAnchors ==
    tool = "extract" /\ pc = "done"
        => /\ \A k \in DOMAIN selectors :
                  \E i \in DOMAIN traceText :
                      StandsAt(traceText, i, selectors[k])
           /\ traceText \in OnlyLiteral => selectors = <<>>

C24_Witness ==
    /\ tool = "extract"
    /\ pc = "done"
    /\ traceText = <<"g", " ">> \o Address \o <<" ">>
    /\ selectors = <<>>

-----------------------------------------------------------------------------
(* Insertion claims *)

\* the resolved entries whose selector stands at position i of text
ResolvedAt(text, i) ==
    {k \in DOMAIN selectorMap :
        /\ AnnotationOf(selectorMap[k]) # <<>>
        /\ StandsAt(text, i, selectorMap[k].selector)}

\* text from position from on, with ' [annotation]' inserted after every
\* occurrence of a resolved selector and nothing else touched
RECURSIVE Inserted(_, _)
Inserted(text, from) ==
    LET found == {i \in from..Len(text) : ResolvedAt(text, i) # {}}
        first == Min(found)
        e == selectorMap[CHOOSE k \in ResolvedAt(text, first) : TRUE]
        after == first + Len(e.selector)
    IN  IF found = {} THEN SubSeq(text, from, Len(text))
        ELSE SubSeq(text, from, after - 1)
                 \o <<" ", "[">> \o AnnotationOf(e) \o <<"]">>
                 \o Inserted(text, after)

\* C25: the returned trace is the original trace with one ' [<annotation>]'
\* inserted after each qualifying occurrence of a resolved selector, the
\* annotation character for character, and with no other character added,
\* removed or changed, whatever the candidates contain.
C25_OnlyInsertions ==
    Annotated => response.trace = Inserted(traceText, 1)

-----------------------------------------------------------------------------
(* cast_send *)

\* values of PRIVATE_KEY in the environment of the server
PrivateKeys == {<<"0", "x", "1", "2">>, <<"0", "x", "3", "4">>}

\* an optional argument: <<>> when it is not given
Optional(value) == {<<>>, value}

SendRequests ==
    [privateKey : PrivateKeys,
     contractAddress : {<<"0", "x", "c">>},
     functionSignature : {SigA},
     args : Optional(<<"7">>),
     from : Optional(<<"0", "x", "f">>),
     value : Optional(<<"1">>),
     rpcUrl : {<<"u">>},
     gasLimit : Optional(<<"9">>),
     gasPrice : Optional(<<"2">>),
     confirmations : Optional(<<"3">>)]

\* an option of the command line, added when its argument is given
Option(name, value) == IF value = <<>> THEN <<>> ELSE name \o value

\* the command line of cast send
SendCommand(r) ==
    LET TxtCastSend == <<"c", "a", "s", "t", " ", "s", "e", "n", "d", " ">>
        TxtPrivateKey == <<" ", "-", "-", "p", "r", "i", "v", "a", "t", "e",
            "-", "k", "e", "y", " ">>
        TxtFrom == <<" ", "-", "-", "f", "r", "o", "m", " ">>
        TxtValue == <<" ", "-", "-", "v", "a", "l", "u", "e", " ">>
        TxtRpcUrl == <<" ", "-", "-", "r", "p", "c", "-", "u", "r", "l",
            " ">>
        TxtGasLimit == <<" ", "-", "-", "g", "a", "s", "-", "l", "i", "m",
            "i", "t", " ">>
        TxtGasPrice == <<" ", "-", "-", "g", "a", "s", "-", "p", "r", "i",
            "c", "e", " ">>
        TxtConfirmations == <<" ", "-", "-", "c", "o", "n", "f", "i", "r",
            "m", "a", "t", "i", "o", "n", "s", " ">>
    IN  TxtCastSend \o r.contractAddress \o <<" ", "\"">>
            \o r.functionSignature
            \o <<"\"">> \o TxtPrivateKey \o r.privateKey
            \o Option(<<" ">>, r.args)
            \o Option(TxtFrom, r.from)
            \o Option(TxtValue, r.value)
            \o TxtRpcUrl \o <<"\"">> \o r.rpcUrl \o <<"\"">>
            \o Option(TxtGasLimit, r.gasLimit)
            \o Option(TxtGasPrice, r.gasPrice)
            \o Option(TxtConfirmations, r.confirmations)

\* executeCommand with the message of a rejected exec spelled out: the Error
\* of child_process.exec reads 'Command failed: ' + command + '\n' + stderr
ExecuteCommandLine(command, proc) ==
    LET TxtCommandFailed == <<"C", "o", "m", "m", "a", "n", "d", " ", "f",
            "a", "i", "l", "e", "d", ":", " ">>
    IN  IF proc.exit # "ok"
        THEN [success |-> FALSE,
              message |->
                  TxtCommandFailed \o command \o <<"\n">> \o proc.stderr]
        ELSE IF proc.stderr # <<>> /\ proc.stdout = <<>>
             THEN [success |-> FALSE, message |-> proc.stderr]
             ELSE [success |-> TRUE, message |-> proc.stdout]

\* what cast send can do
SendProcs == {ProcFail, ProcWarn, ProcOk(<<"T">>)}

\* the response of cast_send
SendResponse(result) ==
    IF result.success
    THEN Resp(FALSE, "Transaction sent successfully:", result.message, <<>>,
              <<>>)
    ELSE Resp(TRUE, "Transaction failed:", result.message, <<>>, <<>>)

InitSend ==
    /\ tool = "cast_send"
    /\ pc = "start"
    /\ req \in SendRequests
    /\ fileContent = <<>>
    /\ traceText = <<>>
    /\ selectors = <<>>
    /\ idx = 0
    /\ selectorMap = <<>>
    /\ onlineSignatures = <<>>
    /\ signatures = <<>>
    /\ sigIdx = 0
    /\ matchingSignatures = <<>>
    /\ calls = <<>>
    /\ response = NoResponse

S_Start ==
    /\ tool = "cast_send"
    /\ pc = "start"
    /\ calls' = Append(calls, Call("forge_version", <<>>))
    /\ pc' = "installed"
    /\ UNCHANGED <<tool, req, fileContent, traceText, selectors, idx,
                   selectorMap, onlineSignatures, signatures, sigIdx,
                   matchingSignatures, response>>

S_Installed ==
    /\ tool = "cast_send"
    /\ pc = "installed"
    /\ \E installed \in BOOLEAN :
          IF ~installed
          THEN /\ response' = NotInstalled
               /\ pc' = "done"
               /\ calls' = Returned(installed)
          ELSE \* await resolveRpcUrl(rpcUrl), then the command is built
               /\ calls' = Append(Returned(installed),
                                  Call("cast_send", SendCommand(req)))
               /\ pc' = "send"
               /\ response' = response
    /\ UNCHANGED <<tool, req, fileContent, traceText, selectors, idx,
                   selectorMap, onlineSignatures, signatures, sigIdx,
                   matchingSignatures>>

S_Send ==
    /\ tool = "cast_send"
    /\ pc = "send"
    /\ \E proc \in SendProcs :
          LET result == ExecuteCommandLine(calls[Len(calls)].arg, proc)
          IN  /\ response' = SendResponse(result)
              /\ calls' = Returned(result.success)
    /\ pc' = "done"
    /\ UNCHANGED <<tool, req, fileContent, traceText, selectors, idx,
                   selectorMap, onlineSignatures, signatures, sigIdx,
                   matchingSignatures>>

NextSend ==
    \/ S_Start
    \/ S_Installed
    \/ S_Send

SpecSend == InitSend /\ [][NextSend]_vars

\* C26: the private key that cast_send takes from the environment occurs
\* nowhere in the text of its response, so that two requests that differ
\* only in the key and whose command fails the same way get the same text.
C26_KeyNotInResponse ==
    tool = "cast_send" /\ Done => ~Occurs(req.privateKey, response.subject)

-----------------------------------------------------------------------------
(* anvil_start, anvil_stop and anvil_status: requests in flight together.
   tool, pc, req and response hold one value for each request; calls is the
   list of the Anvil processes the server has launched, "pending" while the
   process is alive *)

MaxRequests == 2
DefaultPort == 8545

Requests == 1..MaxRequests
AnvilTools == {"anvil_start", "anvil_stop", "anvil_status"}
Ports == {DefaultPort, DefaultPort + 1}

\* the Anvil processes that are alive
Alive == {p \in DOMAIN calls : calls[p].status = "pending"}

\* the port of the first --port of the process listing
ListedPort == calls[CHOOSE p \in Alive : \A q \in Alive : p <= q].arg

\* getAnvilInfo: the listing of the processes whose command line has anvil
getAnvilInfo ==
    IF Alive = {}
    THEN [running |-> FALSE, port |-> 0]
    ELSE [running |-> TRUE, port |-> ListedPort]

\* the value of the request r becomes v and the request is over
Respond(r, v) ==
    /\ response' = [response EXCEPT ![r] = v]
    /\ pc' = [pc EXCEPT ![r] = "done"]

\* the request r goes on at the position p
Goto(r, p) ==
    /\ pc' = [pc EXCEPT ![r] = p]
    /\ response' = response

InitAnvil ==
    /\ tool \in [Requests -> AnvilTools]
    /\ pc = [r \in Requests |-> "start"]
    /\ req \in [Requests -> [port : Ports]]
    /\ \A r \in Requests : tool[r] # "anvil_start" => req[r].port = DefaultPort
    /\ fileContent = <<>>
    /\ traceText = <<>>
    /\ selectors = <<>>
    /\ idx = 0
    /\ selectorMap = <<>>
    /\ onlineSignatures = <<>>
    /\ signatures = <<>>
    /\ sigIdx = 0
    /\ matchingSignatures = <<>>
    /\ calls = <<>>
    /\ response = [r \in Requests |-> NoResponse]

\* await checkFoundryInstalled()
N_Installed(r) ==
    /\ tool[r] = "anvil_start"
    /\ pc[r] = "start"
    /\ \E installed \in BOOLEAN :
          IF installed THEN Goto(r, "check") ELSE Respond(r, NotInstalled)
    /\ UNCHANGED <<tool, req, fileContent, traceText, selectors, idx,
                   selectorMap, onlineSignatures, signatures, sigIdx,
                   matchingSignatures, calls>>

\* await getAnvilInfo(): the listing is taken
N_Check(r) ==
    /\ tool[r] = "anvil_start"
    /\ pc[r] = "check"
    /\ LET anvilInfo == getAnvilInfo
       IN  IF anvilInfo.running
           THEN Respond(r, Resp(TRUE, "Anvil is already running on port",
                                anvilInfo.port, <<>>, <<>>))
           ELSE Goto(r, "launch")
    /\ UNCHANGED <<tool, req, fileContent, traceText, selectors, idx,
                   selectorMap, onlineSignatures, signatures, sigIdx,
                   matchingSignatures, calls>>

\* the handler goes on after the listing: exec(command)
N_Launch(r) ==
    /\ tool[r] = "anvil_start"
    /\ pc[r] = "launch"
    /\ calls' = Append(calls, Call("anvil", req[r].port))
    /\ Goto(r, "started")
    /\ UNCHANGED <<tool, req, fileContent, traceText, selectors, idx,
                   selectorMap, onlineSignatures, signatures, sigIdx,
                   matchingSignatures>>

\* after the wait of one second: await getAnvilInfo()
N_Started(r) ==
    /\ tool[r] = "anvil_start"
    /\ pc[r] = "started"
    /\ IF getAnvilInfo.running
       THEN Respond(r, Resp(FALSE, "Anvil started successfully on port",
                            req[r].port, <<>>, <<>>))
       ELSE Respond(r, Resp(TRUE, "Failed to start Anvil.", <<>>, <<>>,
                            <<>>))
    /\ UNCHANGED <<tool, req, fileContent, traceText, selectors, idx,
                   selectorMap, onlineSignatures, signatures, sigIdx,
                   matchingSignatures, calls>>

\* an Anvil process whose port is held by an older one cannot bind it and
\* exits
PortTaken(p) ==
    /\ p \in Alive
    /\ \E q \in Alive : q < p /\ calls[q].arg = calls[p].arg
    /\ calls' = [calls EXCEPT ![p].status = "failed"]
    /\ UNCHANGED <<tool, pc, req, fileContent, traceText, selectors, idx,
                   selectorMap, onlineSignatures, signatures, sigIdx,
                   matchingSignatures, response>>

\* anvil_stop: await getAnvilInfo()
P_Check(r) ==
    /\ tool[r] = "anvil_stop"
    /\ pc[r] = "start"
    /\ IF getAnvilInfo.running
       THEN Goto(r, "kill")
       ELSE Respond(r, Resp(TRUE, "No Anvil instance is currently running.",
                            <<>>, <<>>, <<>>))
    /\ UNCHANGED <<tool, req, fileContent, traceText, selectors, idx,
                   selectorMap, onlineSignatures, signatures, sigIdx,
                   matchingSignatures, calls>>

\* pkill -f anvil: every Anvil process is killed; pkill fails when it finds
\* none
P_Kill(r) ==
    /\ tool[r] = "anvil_stop"
    /\ pc[r] = "kill"
    /\ calls' = [p \in DOMAIN calls |-> [calls[p] EXCEPT !.status = "failed"]]
    /\ IF Alive = {}
       THEN Respond(r, Resp(TRUE, "Error stopping Anvil:", <<>>, <<>>, <<>>))
       ELSE Goto(r, "stopped")
    /\ UNCHANGED <<tool, req, fileContent, traceText, selectors, idx,
                   selectorMap, onlineSignatures, signatures, sigIdx,
                   matchingSignatures>>

\* after the wait of half a second: await getAnvilInfo()
P_Stopped(r) ==
    /\ tool[r] = "anvil_stop"
    /\ pc[r] = "stopped"
    /\ IF ~getAnvilInfo.running
       THEN Respond(r, Resp(FALSE, "Anvil has been stopped successfully.",
                            <<>>, <<>>, <<>>))
       ELSE Respond(r, Resp(TRUE, "Failed to stop Anvil.", <<>>, <<>>, <<>>))
    /\ UNCHANGED <<tool, req, fileContent, traceText, selectors, idx,
                   selectorMap, onlineSignatures, signatures, sigIdx,
                   matchingSignatures, calls>>

\* anvil_status
U_Status(r) ==
    /\ tool[r] = "anvil_status"
    /\ pc[r] = "start"
    /\ LET anvilInfo == getAnvilInfo
       IN  IF anvilInfo.running
           THEN Respond(r, Resp(FALSE, "Anvil is running on port",
                                anvilInfo.port, <<>>, <<>>))
           ELSE Respond(r, Resp(FALSE, "Anvil is not currently running.",
                                <<>>, <<>>, <<>>))
    /\ UNCHANGED <<tool, req, fileContent, traceText, selectors, idx,
                   selectorMap, onlineSignatures, signatures, sigIdx,
                   matchingSignatures, calls>>

NextAnvil ==
    \/ \E r \in Requests : N_Installed(r)
    \/ \E r \in Requests : N_Check(r)
    \/ \E r \in Requests : N_Launch(r)
    \/ \E r \in Requests : N_Started(r)
    \/ \E p \in DOMAIN calls : PortTaken(p)
    \/ \E r \in Requests : P_Check(r)
    \/ \E r \in Requests : P_Kill(r)
    \/ \E r \in Requests : P_Stopped(r)
    \/ \E r \in Requests : U_Status(r)

SpecAnvil == InitAnvil /\ [][NextAnvil]_vars

\* C27: under every interleaving of anvil_start, anvil_stop and anvil_status
\* requests at most one Anvil process launched by the server is alive, and
\* no Anvil process is launched while one is alive.
C27_AtMostOneAnvil == Cardinality(Alive) <= 1

-----------------------------------------------------------------------------
(* create_solidity_file and read_file: requests in flight together. A path is
   the list of its segments; fileContent maps every path of the file system
   to the content of the file, NoValue where there is no file; calls is the
   list of the reads and writes of files *)

\* FOUNDRY_WORKSPACE
Workspace == <<"home", ".mcp-foundry-workspace">>

\* path.normalize on the segments held so far and the segments to come
RECURSIVE Normalize(_, _)
Normalize(held, rest) ==
    IF rest = <<>> THEN held
    ELSE IF Head(rest) = "."
         THEN Normalize(held, Tail(rest))
    ELSE IF Head(rest) = ".."
         THEN Normalize(IF held = <<>> THEN held
                        ELSE SubSeq(held, 1, Len(held) - 1), Tail(rest))
    ELSE Normalize(Append(held, Head(rest)), Tail(rest))

\* path.join(workspace, filePath)
PathJoin(workspace, filePath) == Normalize(<<>>, workspace \o filePath)

FileTools == {"create_solidity_file", "read_file"}

\* the filePath arguments
FilePaths ==
    {<<"a.sol">>, <<"src", "..", "a.sol">>, <<"..", "a.sol">>}

\* the files of the file system
FullPaths == {PathJoin(Workspace, p) : p \in FilePaths}

\* the content a request writes
ContentOf(r) == <<"c", r>>

FileRequests(r) ==
    [filePath : FilePaths, content : {ContentOf(r)}, overwrite : BOOLEAN]

InitFiles ==
    /\ tool \in [Requests -> FileTools]
    /\ pc = [r \in Requests |-> "start"]
    /\ req \in [Requests -> UNION {FileRequests(r) : r \in Requests}]
    /\ \A r \in Requests :
          /\ req[r] \in FileRequests(r)
          /\ tool[r] = "read_file" => ~req[r].overwrite
    /\ fileContent \in [FullPaths -> {NoValue, <<"o", "l", "d">>}]
    /\ traceText = <<>>
    /\ selectors = <<>>
    /\ idx = 0
    /\ selectorMap = <<>>
    /\ onlineSignatures = <<>>
    /\ signatures = <<>>
    /\ sigIdx = 0
    /\ matchingSignatures = <<>>
    /\ calls = <<>>
    /\ response = [r \in Requests |-> NoResponse]

fullFilePath(r) == PathJoin(Workspace, req[r].filePath)

\* await ensureWorkspaceInitialized(), which throws what its mkdir throws
L_Workspace(r) ==
    /\ tool[r] \in FileTools
    /\ pc[r] = "start"
    /\ \E ok \in BOOLEAN :
          IF ok THEN Goto(r, "access")
          ELSE Respond(r, Resp(TRUE,
                               IF tool[r] = "read_file"
                               THEN "Error reading file:"
                               ELSE "Error managing file:",
                               <<>>, <<>>, <<>>))
    /\ UNCHANGED <<tool, req, fileContent, traceText, selectors, idx,
                   selectorMap, onlineSignatures, signatures, sigIdx,
                   matchingSignatures, calls>>

\* create_solidity_file: await fs.access(fullFilePath)
L_Access(r) ==
    /\ tool[r] = "create_solidity_file"
    /\ pc[r] = "access"
    /\ LET fileExists == fileContent[fullFilePath(r)] # NoValue
       IN  IF fileExists /\ ~req[r].overwrite
           THEN Respond(r, Resp(TRUE, "File already exists at",
                                fullFilePath(r), <<>>, <<>>))
           ELSE Goto(r, IF fileExists THEN "updated" ELSE "created")
    /\ UNCHANGED <<tool, req, fileContent, traceText, selectors, idx,
                   selectorMap, onlineSignatures, signatures, sigIdx,
                   matchingSignatures, calls>>

\* create_solidity_file: await fs.mkdir(...), await fs.writeFile(...)
L_Write(r) ==
    /\ tool[r] = "create_solidity_file"
    /\ pc[r] \in {"created", "updated"}
    /\ fileContent' =
           [fileContent EXCEPT ![fullFilePath(r)] = req[r].content]
    /\ calls' = Append(calls, [Call("writeFile", fullFilePath(r))
                                   EXCEPT !.status = "ok"])
    /\ Respond(r, Resp(FALSE,
                       IF pc[r] = "updated"
                       THEN "File updated successfully at"
                       ELSE "File created successfully at",
                       fullFilePath(r), <<>>, <<>>))
    /\ UNCHANGED <<tool, req, traceText, selectors, idx, selectorMap,
                   onlineSignatures, signatures, sigIdx, matchingSignatures>>

\* read_file: await fs.access(fullFilePath)
L_Exists(r) ==
    /\ tool[r] = "read_file"
    /\ pc[r] = "access"
    /\ IF fileContent[fullFilePath(r)] = NoValue
       THEN Respond(r, Resp(TRUE, "File does not exist at", fullFilePath(r),
                            <<>>, <<>>))
       ELSE Goto(r, "read")
    /\ UNCHANGED <<tool, req, fileContent, traceText, selectors, idx,
                   selectorMap, onlineSignatures, signatures, sigIdx,
                   matchingSignatures, calls>>

\* read_file: await fs.readFile(fullFilePath, 'utf8')
L_Read(r) ==
    /\ tool[r] = "read_file"
    /\ pc[r] = "read"
    /\ calls' = Append(calls, [Call("readFile", fullFilePath(r))
                                   EXCEPT !.status = "ok"])
    /\ Respond(r, Resp(FALSE, "Content of", req[r].filePath,
                       <<fileContent[fullFilePath(r)]>>, <<>>))
    /\ UNCHANGED <<tool, req, fileContent, traceText, selectors, idx,
                   selectorMap, onlineSignatures, signatures, sigIdx,
                   matchingSignatures>>

NextFiles ==
    \/ \E r \in Requests : L_Workspace(r)
    \/ \E r \in Requests : L_Access(r)
    \/ \E r \in Requests : L_Write(r)
    \/ \E r \in Requests : L_Exists(r)
    \/ \E r \in Requests : L_Read(r)

SpecFiles == InitFiles /\ [][NextFiles]_vars

\* the step is of a request with overwrite=false
StepOfNoOverwrite == \E r \in Requests : pc'[r] # pc[r] /\ ~req[r].overwrite

\* C28: a create_solidity_file request with overwrite=false never changes
\* the content of a file that exists, under every interleaving of requests.
C28_Step ==
    StepOfNoOverwrite =>
        \A p \in FullPaths :
            fileContent[p] # NoValue => fileContent'[p] = fileContent[p]

C28_NoOverwrite == [][C28_Step]_vars

\* C29: every file written by create_solidity_file and every file read by
\* read_file lies inside the workspace directory.
C29_InsideWorkspace ==
    \A i \in DOMAIN calls :
        calls[i].kind \in {"writeFile", "readFile"} =>
            IsPrefix(Workspace, calls[i].arg)

-----------------------------------------------------------------------------
(* The candidate list of one directory response *)

\* the lines a directory response is made of
ResponseLineKinds == {<<>>, <<" ">>, SigA, <<" ">> \o SigB \o <<" ">>}

\* what a directory lookup can return, blank lines between signatures
\* included
ResponseProcs ==
    {ProcFail, ProcWarn}
        \cup {ProcOk(JoinLines(ls)) :
                ls \in UNION {[1..k -> ResponseLineKinds] :
                                k \in 0..(MaxLines + 2)}}

InitParse ==
    /\ tool = "parse"
    /\ pc = "start"
    /\ req \in ResponseProcs
    /\ fileContent = <<>>
    /\ traceText = <<>>
    /\ selectors = <<>>
    /\ idx = 0
    /\ selectorMap = <<>>
    /\ onlineSignatures = <<>>
    /\ signatures = <<>>
    /\ sigIdx = 0
    /\ matchingSignatures = <<>>
    /\ calls = <<>>
    /\ response = NoValue

\* the list built from the response
Parse ==
    /\ tool = "parse"
    /\ pc = "start"
    /\ onlineSignatures' = ParseSignatures(ExecuteCommand(req))
    /\ pc' = "parsed"
    /\ UNCHANGED <<tool, req, fileContent, traceText, selectors, idx,
                   selectorMap, signatures, sigIdx, matchingSignatures,
                   calls, response>>

\* signatures.sort((a, b) => a.length - b.length)
Rank ==
    /\ tool = "parse"
    /\ pc = "parsed"
    /\ signatures' = SortByLength(onlineSignatures)
    /\ pc' = "done"
    /\ UNCHANGED <<tool, req, fileContent, traceText, selectors, idx,
                   selectorMap, onlineSignatures, sigIdx, matchingSignatures,
                   calls, response>>

NextParse ==
    \/ Parse
    \/ Rank

SpecParse == InitParse /\ [][NextParse]_vars

\* C30: every candidate of the list built from a directory response is a
\* non-empty string, so that no empty candidate is ranked first.
C30_NoEmptyCandidate ==
    /\ \A i \in DOMAIN onlineSignatures : onlineSignatures[i] # <<>>
    /\ signatures # <<>> => signatures[1] # <<>>

====
